---------------------------- MODULE Spec2Model ----------------------------
(***************************************************************************)
(* A model of rloc: the line classifier and file counter (counter.rs),     *)
(* the parallel aggregation pipeline (lib.rs), the reduction to a summary  *)
(* (stats.rs) and language detection (languages.rs, custom_langs.rs).      *)
(*                                                                         *)
(* Text is a sequence of one-character strings.  Two characters stand for  *)
(* bytes a TLA+ string cannot hold: NUL is the byte 0 and BAD is a byte    *)
(* that is not valid UTF-8.                                                *)
(***************************************************************************)
EXTENDS Integers, Sequences, FiniteSets, TLC

\* Longest file content, in characters, of the enumerated inputs of SpecCount.
MaxFileLen == 4
\* Longest file content, in characters, of the enumerated inputs of SpecScan.
MaxScanLen == 4
\* Most entries the walker hands to the pipeline in SpecPipeline.
MaxEntries == 2
\* Most per-file records handed to from_file_stats in SpecSummary.
MaxStats == 2
\* Largest counter of a per-file record in SpecSummary.
MaxCount == 1
\* the most calls of CustomLanguages::load in a run
MaxLoads == 2

VARIABLES
    \* count_lines: its arguments and locals
    lang,      \* language: &Language
    file,      \* the content behind path, or Unreadable
    pc,        \* position in count_lines
    reader,    \* reader.lines(): the line results not yet consumed
    state,     \* let mut state
    stats,     \* let mut stats
    hist,      \* history: what each loop iteration did with its line
    \* classify_line: its arguments and locals, one loop iteration per step
    line,      \* line: &str (the trimmed line)
    scn,       \* state, has_code, has_comment and the position of chars
    opens,     \* history: block-open tokens consumed since the comment began
    closes,    \* history: block-close tokens consumed since the comment began
    began,     \* history: the line the comment began on, and has_code then
    trail,     \* history: what followed the block-close tokens of the line
    \* analyze_with_config
    entries,     \* files: what walk_files returned, (path, language) each
    disk,        \* the file behind each path
    hasher,      \* the hash AHasher::default() gives each content
    seen_hashes, \* seen_hashes: DashSet<u64>
    tasks,       \* the closure of filter_map, one per entry
    ppc,         \* position in analyze_with_config
    file_stats,  \* file_stats: Vec<FileStats>, the argument of from_file_stats
    summary,     \* what from_file_stats returned
    aresult,     \* what the entry point returned: Result<Analysis>
    atop,        \* what top_language makes of that return
    skip_uniqueness, \* walker_config.skip_uniqueness
    \* languages.rs and custom_langs.rs
    custom_languages, \* CUSTOM_LANGUAGES: OnceLock<CustomLanguages>
    load_ret,         \* what the calls of CustomLanguages::load returned, in order
    dpath,            \* the path of the latest detect_language call
    detected,         \* what that call returned
    dcl,              \* CUSTOM_LANGUAGES.get() as that call read it
    \* walker.rs
    wcfg,             \* the WalkerConfig of the walk_files call
    wdisk,            \* the files on disk
    wpc,              \* "call" before walk_files runs, "done" after
    wmode,            \* the order the disk was listed in and what git gave
    wout              \* what walk_files returned

countVars == <<lang, file, pc, reader, state, stats, hist>>
scanVars == <<line, scn, opens, closes, began, trail>>
pipeVars ==
    <<entries, disk, hasher, seen_hashes, tasks, ppc, file_stats, summary,
      aresult, atop, skip_uniqueness>>
detVars == <<custom_languages, load_ret, dpath, detected, dcl>>
walkVars == <<wcfg, wdisk, wpc, wmode, wout>>
vars == <<countVars, scanVars, pipeVars, detVars, walkVars>>

----------------------------------------------------------------------------
(* Text helpers *)

\* The backtick character
TICK == "TICK"
NUL == "NUL"
BAD == "BAD"
None == <<>>
Some(t) == <<t>>

Range(s) == {s[i] : i \in 1..Len(s)}

MinOf(S) == CHOOSE x \in S : \A y \in S : x <= y
MaxOf(S) == CHOOSE x \in S : \A y \in S : x >= y

\* All sequences over alphabet A of length at most n.
SeqsUpTo(A, n) == UNION {[1..k -> A] : k \in 0..n}

\* str::starts_with on the remaining text &line[i..]
StartsWith(s, i, t) ==
    /\ i + Len(t) - 1 <= Len(s)
    /\ \A k \in 1..Len(t) : s[i + k - 1] = t[k]

\* str::ends_with
EndsWith(s, t) ==
    /\ Len(t) <= Len(s)
    /\ \A k \in 1..Len(t) : s[Len(s) - Len(t) + k] = t[k]

\* char::is_whitespace, on the characters of the model
IsWhitespace(c) == c \in {" ", "\t", "\r", "\n"}

\* str::trim
Trim(s) ==
    LET keep == {i \in 1..Len(s) : ~IsWhitespace(s[i])}
    IN  IF keep = {} THEN <<>> ELSE SubSeq(s, MinOf(keep), MaxOf(keep))

----------------------------------------------------------------------------
(* languages.rs: the rulesets the model reads *)

Language(n, lc, bs, be, nested, sd) ==
    [name |-> n, line_comments |-> lc, block_comment_start |-> bs,
     block_comment_end |-> be, nested_comments |-> nested,
     string_delimiters |-> sd]

c_style(n) ==
    Language(n, << <<"/", "/">> >>, Some(<<"/", "*">>), Some(<<"*", "/">>),
             FALSE, << <<"\"">>, <<"'">> >>)

with_nested_comments(l) == [l EXCEPT !.nested_comments = TRUE]

LangNew(n) == Language(n, <<>>, None, None, FALSE, << <<"\"">>, <<"'">> >>)

Rust == with_nested_comments(c_style("Rust"))
C == c_style("C")
Python ==
    Language("Python", << <<"#">> >>, Some(<<"\"", "\"", "\"">>),
             Some(<<"\"", "\"", "\"">>), FALSE, << <<"\"">>, <<"'">> >>)
JSON == LangNew("JSON")
\* A ruleset as CustomLanguages::load builds it from a definition whose
\* string_delimiters is the backtick alone
Tick ==
    Language("Tick", << <<"#">> >>, None, None, FALSE, << <<TICK>> >>)
Lua ==
    Language("Lua", << <<"-", "-">> >>, Some(<<"-", "-", "[", "[">>), Some(<<"]", "]">>), FALSE,
             << <<"\"">>, <<"'">> >>)

----------------------------------------------------------------------------
(* counter.rs: State, LineType *)

Code == [tag |-> "Code", depth |-> 0, delimiter |-> ""]
BlockComment(d) == [tag |-> "BlockComment", depth |-> d, delimiter |-> ""]
String(c) == [tag |-> "String", depth |-> 0, delimiter |-> c]

\* usize::saturating_sub
SaturatingSub(a, b) == IF a >= b THEN a - b ELSE 0

\* The position of chars after the token at i is consumed: the loop's own
\* chars.next() and count - 1 more.
PastToken(i, t) == i + 1 + SaturatingSub(Len(t), 1)

\* ScanStart with has_comment false whatever the state
ScanStartNoComment(initial_state) ==
    [state |-> initial_state, has_code |-> FALSE, has_comment |-> FALSE,
     pos |-> 1, ret |-> FALSE, tok |-> "none"]

\* The scanner at the start of classify_line.
ScanStart(initial_state) ==
    [state |-> initial_state, has_code |-> FALSE,
     has_comment |-> (initial_state.tag = "BlockComment"),
     pos |-> 1, ret |-> FALSE, tok |-> "none"]

\* The State::Code arm with the line-comment tokens tested before block-open
ScanCodeLineFirst(l, s, sc) ==
    LET i == sc.pos
        bs == l.block_comment_start
    IN  IF IsWhitespace(s[i])
        THEN [sc EXCEPT !.pos = i + 1, !.tok = "none"]
        ELSE IF \E k \in 1..Len(l.line_comments) :
                    StartsWith(s, i, l.line_comments[k])
        THEN [sc EXCEPT !.has_comment = TRUE, !.state = Code,
                        !.ret = TRUE, !.tok = "line"]
        ELSE IF bs # None /\ StartsWith(s, i, bs[1])
        THEN [sc EXCEPT !.has_comment = TRUE, !.state = BlockComment(1),
                        !.pos = PastToken(i, bs[1]), !.tok = "open"]
        ELSE [sc EXCEPT !.has_code = TRUE, !.pos = i + 1, !.tok = "none"]

\* State::Code arm of the loop body
ScanCode(l, s, sc) ==
    LET i == sc.pos
        c == s[i]
        bs == l.block_comment_start
        isDelim == \E k \in 1..Len(l.string_delimiters) :
                      /\ StartsWith(s, i, l.string_delimiters[k])
                      /\ Len(l.string_delimiters[k]) = 1
    IN  IF IsWhitespace(c)
        THEN [sc EXCEPT !.pos = i + 1, !.tok = "none"]
        ELSE IF bs # None /\ StartsWith(s, i, bs[1])
        THEN [sc EXCEPT !.has_comment = TRUE, !.state = BlockComment(1),
                        !.pos = PastToken(i, bs[1]), !.tok = "open"]
        ELSE IF \E k \in 1..Len(l.line_comments) :
                    StartsWith(s, i, l.line_comments[k])
        THEN [sc EXCEPT !.has_comment = TRUE, !.state = Code,
                        !.ret = TRUE, !.tok = "line"]
        ELSE IF (c = "\"" \/ c = "'") /\ isDelim
        THEN [sc EXCEPT !.has_code = TRUE, !.state = String(c),
                        !.pos = i + 1, !.tok = "none"]
        ELSE [sc EXCEPT !.has_code = TRUE, !.pos = i + 1, !.tok = "none"]

\* ScanBlockClose that leaves the comment at the first close
ScanBlockCloseFlat(sc, be) ==
    [sc EXCEPT !.state = Code, !.pos = PastToken(sc.pos, be), !.tok = "close"]

\* ScanBlockClose without the test for depth 0
ScanBlockCloseToZero(sc, be) ==
    [sc EXCEPT !.state = BlockComment(sc.state.depth - 1),
               !.pos = PastToken(sc.pos, be), !.tok = "close"]

\* State::BlockComment arm of the loop body
ScanBlockClose(sc, be) ==
    LET new_depth == sc.state.depth - 1
    IN  [sc EXCEPT !.state = IF new_depth = 0 THEN Code
                             ELSE BlockComment(new_depth),
                   !.pos = PastToken(sc.pos, be), !.tok = "close"]

ScanBlockNest(sc, bs) ==
    [sc EXCEPT !.state = BlockComment(sc.state.depth + 1),
               !.pos = PastToken(sc.pos, bs), !.tok = "open"]

ScanBlock(l, s, sc) ==
    LET i == sc.pos
        bs == l.block_comment_start
        be == l.block_comment_end
    IN  IF be # None /\ StartsWith(s, i, be[1])
        THEN ScanBlockClose(sc, be[1])
        ELSE IF l.nested_comments /\ bs # None /\ StartsWith(s, i, bs[1])
        THEN ScanBlockNest(sc, bs[1])
        ELSE [sc EXCEPT !.pos = i + 1, !.tok = "none"]

\* ScanString without the escape
ScanStringNoEscape(l, s, sc) ==
    IF s[sc.pos] = sc.state.delimiter
    THEN [sc EXCEPT !.state = Code, !.pos = sc.pos + 1, !.tok = "none"]
    ELSE [sc EXCEPT !.pos = sc.pos + 1, !.tok = "none"]

\* State::String arm of the loop body
ScanString(l, s, sc) ==
    LET i == sc.pos
        c == s[i]
    IN  IF c = "\\"
        THEN [sc EXCEPT !.pos = i + 2, !.tok = "none"]
        ELSE IF c = sc.state.delimiter
        THEN [sc EXCEPT !.state = Code, !.pos = i + 1, !.tok = "none"]
        ELSE [sc EXCEPT !.pos = i + 1, !.tok = "none"]

\* One iteration of `while let Some((byte_idx, c)) = chars.next()`
ScanChar(l, s, sc) ==
    CASE sc.state.tag = "Code" -> ScanCode(l, s, sc)
      [] sc.state.tag = "BlockComment" -> ScanBlock(l, s, sc)
      [] sc.state.tag = "String" -> ScanString(l, s, sc)

\* The loop is over: the iterator is exhausted or the line-comment arm returned.
ScanOver(s, sc) == sc.ret \/ sc.pos > Len(s)

\* match (has_code, has_comment)
LineTypeOf(has_code, has_comment) ==
    IF has_code /\ has_comment THEN "Mixed"
    ELSE IF has_code THEN "Code"
    ELSE IF has_comment THEN "Comment"
    ELSE "Blank"

\* ScanResult without the reset of an unterminated string
ScanResultNoReset(sc) ==
    [state |-> sc.state,
     line_type |-> LineTypeOf(sc.has_code, sc.has_comment)]

\* What classify_line returns once the loop is over: (state, line_type)
ScanResult(sc) ==
    [state |-> IF sc.state.tag = "String" THEN Code ELSE sc.state,
     line_type |-> LineTypeOf(sc.has_code, sc.has_comment)]

RECURSIVE ScanLoop(_, _, _)
ScanLoop(l, s, sc) ==
    IF ScanOver(s, sc) THEN sc ELSE ScanLoop(l, s, ScanChar(l, s, sc))

classify_line(s, initial_state, l) ==
    ScanResult(ScanLoop(l, s, ScanStart(initial_state)))


----------------------------------------------------------------------------
(* counter.rs: FileStats, is_binary, count_lines *)

FileStats(p, l) ==
    [path |-> p, language |-> l.name, code |-> 0, comments |-> 0, blanks |-> 0]

\* FileStats::total
Total(st) == st.code + st.comments + st.blanks

Ok(v) == [ok |-> TRUE, val |-> v]
Err == [ok |-> FALSE, val |-> <<>>]

\* A file of the file system: its bytes, or one that cannot be opened.
Readable(bytes) == [readable |-> TRUE, bytes |-> bytes]
Unreadable == [readable |-> FALSE, bytes |-> <<>>]

\* let mut buffer = [0u8; 8192]
ProbeLen == 8192
\* let binary_threshold = bytes_read / 10
ThresholdDiv == 10

is_binary(bytes) ==
    LET bytes_read == IF Len(bytes) < ProbeLen THEN Len(bytes) ELSE ProbeLen
        null_count == Cardinality({i \in 1..bytes_read : bytes[i] = NUL})
        binary_threshold == bytes_read \div ThresholdDiv
    IN  IF bytes_read = 0 THEN FALSE
        ELSE null_count > (IF binary_threshold > 1 THEN binary_threshold ELSE 1)

\* BufRead::lines: the text up to each newline, and what follows the last
\* newline when it is not empty; a trailing carriage return is dropped; a
\* line that is not valid UTF-8 is an error and the iteration goes on.
\* SplitLines without the text that follows the last newline
RECURSIVE SplitLinesNoTail(_)
SplitLinesNoTail(bytes) ==
    LET nl == {i \in 1..Len(bytes) : bytes[i] = "\n"}
    IN  IF nl = {} THEN <<>>
        ELSE <<SubSeq(bytes, 1, MinOf(nl) - 1)>>
             \o SplitLinesNoTail(SubSeq(bytes, MinOf(nl) + 1, Len(bytes)))

RECURSIVE SplitLines(_)
SplitLines(bytes) ==
    IF bytes = <<>> THEN <<>>
    ELSE LET nl == {i \in 1..Len(bytes) : bytes[i] = "\n"}
         IN  IF nl = {} THEN <<bytes>>
             ELSE <<SubSeq(bytes, 1, MinOf(nl) - 1)>>
                  \o SplitLines(SubSeq(bytes, MinOf(nl) + 1, Len(bytes)))

LineResult(seg) ==
    IF BAD \in Range(seg) THEN Err
    ELSE IF seg # <<>> /\ seg[Len(seg)] = "\r"
    THEN Ok(SubSeq(seg, 1, Len(seg) - 1))
    ELSE Ok(seg)

Lines(bytes) ==
    LET segs == SplitLines(bytes)
    IN  [i \in 1..Len(segs) |-> LineResult(segs[i])]

has_comments(l) == Len(l.line_comments) > 0 \/ l.block_comment_start # None

\* TallyOf with a Mixed line added to comments
TallyOfMixedAsComment(line_type) ==
    CASE line_type = "Code" -> "code"
      [] line_type = "Comment" -> "comments"
      [] line_type = "Mixed" -> "comments"
      [] line_type = "Blank" -> "blanks"

\* The counter a line type is added to (match line_type)
TallyOf(line_type) ==
    CASE line_type = "Code" -> "code"
      [] line_type = "Comment" -> "comments"
      [] line_type = "Mixed" -> "code"
      [] line_type = "Blank" -> "blanks"

Add(st, counter) ==
    CASE counter = "code" -> [st EXCEPT !.code = @ + 1]
      [] counter = "comments" -> [st EXCEPT !.comments = @ + 1]
      [] counter = "blanks" -> [st EXCEPT !.blanks = @ + 1]
      [] counter = "none" -> st

\* TallyOfEmpty without the look at the state
TallyOfEmptyAlwaysBlank(st) == "blanks"

\* TallyOfEmpty that takes every empty line for part of a comment
TallyOfEmptyAlwaysComment(st) == "comments"

\* The counter a line whose trimmed text is empty is added to
TallyOfEmpty(st) == IF st.tag = "BlockComment" THEN "comments" ELSE "blanks"

\* What one iteration did: kind is Err, Empty or the line type; counter is
\* the counter it added 1 to.
Did(kind, counter, before, after) ==
    [kind |-> kind, counter |-> counter, before |-> before, after |-> after]

\* One iteration of `for line in reader.lines()`, of either loop
LineStep(l, st, res) ==
    IF ~res.ok THEN Did("Err", "none", st, st)
    ELSE IF ~has_comments(l)
    THEN IF Trim(res.val) = <<>> THEN Did("Empty", "blanks", st, st)
         ELSE Did("Code", "code", st, st)
    ELSE IF Trim(res.val) = <<>> THEN Did("Empty", TallyOfEmpty(st), st, st)
    ELSE LET r == classify_line(Trim(res.val), st, l)
         IN  Did(r.line_type, TallyOf(r.line_type), st, r.state)

RECURSIVE CountLoop(_, _, _, _)
CountLoop(l, st, acc, rd) ==
    IF rd = <<>> THEN acc
    ELSE LET d == LineStep(l, st, Head(rd))
         IN  CountLoop(l, d.after, Add(acc, d.counter), Tail(rd))

count_lines(p, f, l) ==
    IF ~f.readable THEN Err
    ELSE IF is_binary(f.bytes) THEN Ok(FileStats(p, l))
    ELSE Ok(CountLoop(l, Code, FileStats(p, l), Lines(f.bytes)))

----------------------------------------------------------------------------
(* count_lines, one loop iteration per step (SpecCount), and with the loop *)
(* of classify_line one iteration per step (SpecScan)                      *)

ThePath == "f"

NoSummary ==
    [languages |-> <<>>, total_files |-> 0, total_code |-> 0,
     total_comments |-> 0, total_blanks |-> 0, file_stats |-> <<>>]

PipeIdle ==
    /\ entries = <<>>
    /\ disk = <<>>
    /\ hasher = <<>>
    /\ seen_hashes = {}
    /\ tasks = <<>>
    /\ ppc = "idle"
    /\ file_stats = <<>>
    /\ summary = NoSummary
    /\ aresult = None
    /\ atop = None
    /\ skip_uniqueness = FALSE

DetectIdle ==
    /\ custom_languages = None
    /\ load_ret = <<>>
    /\ dpath = <<>>
    /\ detected = None
    /\ dcl = None

WalkIdle ==
    /\ wcfg = <<>>
    /\ wdisk = {}
    /\ wpc = "idle"
    /\ wmode = "none"
    /\ wout = <<>>

\* No block-close token of the line scanned yet
TrailStart == [after_close |-> FALSE, any |-> FALSE, in_code |-> FALSE]

\* What one iteration of the character loop adds to the history of the
\* line: after_close while only white space has followed a block-close
\* token; any once a character that is not white space and starts no
\* comment token has followed one; in_code once one has done so with the
\* scanner in Code.
TrailStep(l, s, sc, sc2, tr) ==
    LET c == s[sc.pos]
        starts_token ==
            \/ l.block_comment_start # None
                  /\ StartsWith(s, sc.pos, l.block_comment_start[1])
            \/ \E k \in 1..Len(l.line_comments) :
                  StartsWith(s, sc.pos, l.line_comments[k])
            \/ sc2.tok = "close"
        follows == tr.after_close /\ ~IsWhitespace(c) /\ ~starts_token
    IN  [after_close |-> IF sc2.tok = "close" THEN TRUE
                         ELSE IF IsWhitespace(c) THEN tr.after_close
                         ELSE FALSE,
         any |-> tr.any \/ follows,
         in_code |-> tr.in_code \/ (follows /\ sc.state.tag = "Code")]

ScanIdle ==
    /\ line = <<>>
    /\ scn = ScanStart(Code)
    /\ opens = 0
    /\ closes = 0
    /\ began = [line |-> 0, has_code |-> FALSE]
    /\ trail = TrailStart

CountStart(l, f) ==
    /\ lang = l
    /\ file = f
    /\ pc = "open"
    /\ reader = <<>>
    /\ state = Code
    /\ stats = FileStats(ThePath, l)
    /\ hist = <<>>
    /\ ScanIdle
    /\ PipeIdle
    /\ DetectIdle
    /\ WalkIdle

\* File::open, is_binary, BufReader::new
Open ==
    /\ pc = "open"
    /\ IF ~file.readable THEN pc' = "err" /\ reader' = reader
       ELSE IF is_binary(file.bytes) THEN pc' = "done" /\ reader' = reader
       ELSE pc' = "lines" /\ reader' = Lines(file.bytes)
    /\ UNCHANGED <<lang, file, state, stats, hist, scanVars, pipeVars, detVars, walkVars>>

\* One iteration of the line loop, classify_line run to its end
ReadLine ==
    /\ pc = "lines"
    /\ reader # <<>>
    /\ LET d == LineStep(lang, state, Head(reader))
       IN  /\ state' = d.after
           /\ stats' = Add(stats, d.counter)
           /\ hist' = Append(hist, d)
    /\ reader' = Tail(reader)
    /\ UNCHANGED <<lang, file, pc, scanVars, pipeVars, detVars, walkVars>>

\* The iterator is exhausted: Ok(stats)
Return ==
    /\ pc = "lines"
    /\ reader = <<>>
    /\ pc' = "done"
    /\ UNCHANGED <<lang, file, reader, state, stats, hist, scanVars, pipeVars, detVars, walkVars>>

\* The start of an iteration of the line loop: a line that is an error or
\* empty once trimmed is dealt with here, any other enters classify_line.
NextLine ==
    /\ pc = "lines"
    /\ reader # <<>>
    /\ reader' = Tail(reader)
    /\ LET res == Head(reader)
       IN  IF ~res.ok \/ ~has_comments(lang) \/ Trim(res.val) = <<>>
           THEN LET d == LineStep(lang, state, res)
                IN  /\ stats' = Add(stats, d.counter)
                    /\ hist' = Append(hist, d)
                    /\ UNCHANGED <<pc, line, scn>>
           ELSE /\ pc' = "scan"
                /\ line' = Trim(res.val)
                /\ scn' = ScanStart(state)
                /\ UNCHANGED <<stats, hist>>
    /\ trail' = TrailStart
    /\ UNCHANGED <<lang, file, state, opens, closes, began, pipeVars, detVars, walkVars>>

\* One iteration of the character loop of classify_line
ScanStep ==
    /\ pc = "scan"
    /\ ~ScanOver(line, scn)
    /\ scn' = ScanChar(lang, line, scn)
    /\ opens' = IF scn'.tok = "open"
                THEN (IF scn.state.tag = "Code" THEN 1 ELSE opens + 1)
                ELSE opens
    /\ closes' = IF scn'.tok = "open" /\ scn.state.tag = "Code" THEN 0
                 ELSE IF scn'.tok = "close" THEN closes + 1
                 ELSE closes
    /\ began' = IF scn'.tok = "open" /\ scn.state.tag = "Code"
                THEN [line |-> Len(hist) + 1, has_code |-> scn.has_code]
                ELSE began
    /\ trail' = TrailStep(lang, line, scn, scn', trail)
    /\ UNCHANGED <<countVars, line, pipeVars, detVars, walkVars>>

\* classify_line returns and the line is tallied
EndLine ==
    /\ pc = "scan"
    /\ ScanOver(line, scn)
    /\ LET r == ScanResult(scn)
           d == Did(r.line_type, TallyOf(r.line_type), state, r.state)
       IN  /\ state' = r.state
           /\ stats' = Add(stats, d.counter)
           /\ hist' = Append(hist, d)
    /\ pc' = "lines"
    /\ UNCHANGED <<lang, file, reader, line, scn, opens, closes, began, trail,
                   pipeVars, detVars, walkVars>>

----------------------------------------------------------------------------
(* The inputs of count_lines *)

\* scenario 1: four lines of Rust
RustSample ==
    <<"f", "n", " ", "m", "a", "i", "n", "(", ")", " ", "{", "\n", " ",
      " ", " ", " ", "/", "/", " ", "h", "i", "\n", " ", " ", " ", " ",
      "l", "e", "t", " ", "x", " ", "=", " ", "5", ";", " ", "/", "*",
      " ", "b", "l", "o", "c", "k", " ", "*", "/", "\n", "}", "\n">>

\* scenario 2 and test_nested_comments: an unbalanced nested open
NestedSample ==
    <<"/", "*", " ", "o", "u", "t", "e", "r", " ", "/", "*", " ", "i",
      "n", "n", "e", "r", " ", "*", "/">>

\* scenario 3: a line-comment token inside a string
PySample ==
    <<"x", " ", "=", " ", "\"", "a", " ", "#", " ", "n", "o", "t", " ",
      "a", " ", "c", "o", "m", "m", "e", "n", "t", "\"">>

\* scenario 4: code followed by a line comment
CSample ==
    <<"i", "n", "t", " ", "x", " ", "=", " ", "0", ";", " ", "/", "/",
      " ", "t", "r", "a", "i", "l", "i", "n", "g">>

\* Nested comments closed in balance, then code
BalancedSample ==
    <<"/", "*", " ", "a", " ", "/", "*", " ", "b", " ", "*", "/", " ", "c",
      " ", "*", "/", " ", "x">>

\* A block comment opened after code and never closed, a blank line in it
UnclosedSample ==
    <<"x", " ", "/", "*", " ", "a", "\n", "\n", "y", "\n", " ", "\n">>

\* Lua, whose block-open token starts with its line-comment token
LuaSample ==
    <<"x", " ", "-", "-", "[", "[", " ", "a", " ", "]", "]", " ", "y", "\n", "-", "-", " ", "z", "\n", "-", "-", "[", "[", " ", "b", "\n">>

\* A backtick string that holds the line-comment token, then a quote
TickSample ==
    <<"x", " ", "=", " ", TICK, "a", " ", "#", " ", "b", TICK, "\n", "\"", "c", "\"", "\n">>

\* Lines that begin inside a nested comment, at depth 2 and at depth 1
DepthSample ==
    <<"/", "*", " ", "/", "*", "\n", "*", "/", " ", "x", "\n", "*", "/", " ", "y", "\n", "z", "\n">>

\* The characters of the enumerated files, per language: the characters of
\* its tokens, a letter, white space, the newline.
CountAlphabet(l) ==
    IF l = C THEN {"x", " ", "\n", "/", "*", NUL, BAD}
    ELSE {"x", " ", "\n", NUL, BAD}

ScanAlphabet(l) ==
    IF l = Rust THEN {"x", " ", "\n", "/", "*", "\"", "\\"}
    ELSE {"x", "\n", "#", "\"", "\\"}

CountInputs ==
    {<<l, Readable(b)>> : l \in {C}, b \in SeqsUpTo(CountAlphabet(C), MaxFileLen)}
    \cup {<<l, Readable(b)>> :
             l \in {JSON}, b \in SeqsUpTo(CountAlphabet(JSON), MaxFileLen)}
    \cup {<<C, Unreadable>>}

ScanInputs ==
    {<<l, Readable(b)>> :
        l \in {Rust}, b \in SeqsUpTo(ScanAlphabet(Rust), MaxScanLen)}
    \cup {<<l, Readable(b)>> :
             l \in {Python}, b \in SeqsUpTo(ScanAlphabet(Python), MaxScanLen)}
    \cup {<<Rust, Readable(RustSample)>>, <<Rust, Readable(NestedSample)>>,
          <<Python, Readable(PySample)>>, <<C, Readable(CSample)>>,
          <<Rust, Readable(BalancedSample)>>, <<C, Readable(UnclosedSample)>>,
          <<Lua, Readable(LuaSample)>>, <<Tick, Readable(TickSample)>>,
          <<Rust, Readable(DepthSample)>>}

InitCount == \E in \in CountInputs : CountStart(in[1], in[2])
NextCount == Open \/ ReadLine \/ Return
SpecCount == InitCount /\ [][NextCount]_vars

InitScan == \E in \in ScanInputs : CountStart(in[1], in[2])
NextScan == Open \/ NextLine \/ ScanStep \/ EndLine \/ Return
SpecScan == InitScan /\ [][NextScan]_vars

----------------------------------------------------------------------------
(* Claims about count_lines and classify_line *)

\* The lines of a file that lines() yields as Ok, counted on the bytes: a
\* line starts at the first byte and after each newline, and it is read
\* when no byte of it is invalid.
LineStarts(b) == {i \in 1..Len(b) : i = 1 \/ b[i - 1] = "\n"}
LineEnd(b, i) ==
    LET nl == {j \in i..Len(b) : b[j] = "\n"}
    IN  IF nl = {} THEN Len(b) ELSE MinOf(nl)
NumLinesRead(b) ==
    Cardinality({i \in LineStarts(b) :
                    \A j \in i..LineEnd(b, i) : b[j] # BAD})

HistCount(kinds) == Cardinality({j \in 1..Len(hist) : hist[j].kind \in kinds})

\* C1: code + comments + blanks is the number of physical lines read (the
\* last line without a newline included): each line read adds 1 to exactly
\* one counter, and all counters are 0 for a binary or an empty file.
C1_TotalIsLinesRead ==
    /\ Total(stats) = HistCount({"Empty", "Code", "Comment", "Mixed", "Blank"})
    /\ stats.code >= 0 /\ stats.comments >= 0 /\ stats.blanks >= 0
    /\ (pc = "done" /\ ~is_binary(file.bytes))
          => Total(stats) = NumLinesRead(file.bytes)
    /\ (pc = "done" /\ (is_binary(file.bytes) \/ file.bytes = <<>>))
          => stats.code = 0 /\ stats.comments = 0 /\ stats.blanks = 0

C1_Witness ==
    /\ pc = "done"
    /\ ~is_binary(file.bytes)
    /\ file.bytes # <<>>
    /\ file.bytes[Len(file.bytes)] # "\n"
    /\ Total(stats) = 2

C1_WitnessBinary == pc = "done" /\ file.readable /\ is_binary(file.bytes)

\* The comment open at the end of the file began on line began.line.
UnclosedAtEof == pc = "done" /\ state.tag = "BlockComment"

CurState == IF pc = "scan" THEN scn.state ELSE state

\* C5: with nested comments, the depth inside a comment is the number of
\* block-open tokens less the number of block-close tokens scanned since the
\* comment began, the state is Code again exactly when the two are equal,
\* and `/* outer /* inner */` leaves depth 1.
C5_NestedDepth ==
    lang.nested_comments =>
        /\ CurState.tag = "BlockComment" => CurState.depth = opens - closes
        /\ CurState.tag = "BlockComment" <=> opens - closes > 0
        /\ (file.bytes = NestedSample /\ pc \in {"lines", "done"} /\ hist # <<>>)
              => state = BlockComment(1)

C5_Witness ==
    /\ lang.nested_comments
    /\ pc = "scan"
    /\ scn.state = BlockComment(1)
    /\ opens = 2
    /\ closes = 1

\* C6: a Mixed line adds 1 to code and nothing to comments, a Comment line 1
\* to comments, a Blank line 1 to blanks, a Code line 1 to code; the C line
\* `int x = 0; // trailing` gives code 1, comments 0, and the four-line Rust
\* sample comments 1, code 3, blanks 0.
C6_MixedIsCode ==
    /\ stats.code = HistCount({"Code", "Mixed"})
    /\ stats.comments =
          HistCount({"Comment"})
          + Cardinality({j \in 1..Len(hist) :
                /\ hist[j].kind = "Empty"
                /\ hist[j].before.tag = "BlockComment"})
    /\ stats.blanks =
          HistCount({"Blank"})
          + Cardinality({j \in 1..Len(hist) :
                /\ hist[j].kind = "Empty"
                /\ hist[j].before.tag # "BlockComment"})
    /\ (pc = "done" /\ lang = C /\ file.bytes = CSample)
          => hist[1].kind = "Mixed" /\ stats.code = 1 /\ stats.comments = 0
    /\ (pc = "done" /\ lang = Rust /\ file.bytes = RustSample)
          => stats.comments = 1 /\ stats.code = 3 /\ stats.blanks = 0

C6_Witness ==
    /\ pc = "done"
    /\ file.bytes = RustSample
    /\ hist[3].kind = "Mixed"
    /\ stats.code = 3

\* The scanner is inside a string, at the character s[pos].
InString == pc = "scan" /\ ~ScanOver(line, scn) /\ scn.state.tag = "String"

\* C7: inside a string no comment token is recognised: a backslash skips the
\* character after it, the delimiter that opened the string ends it, any
\* other character is passed; so `x = "a # not a comment"` is a Code line
\* of Python that leaves the state Code.
C7_StringHidesComments ==
    [][/\ InString =>
            /\ scn'.has_comment = scn.has_comment
            /\ scn'.ret = FALSE
            /\ scn'.has_code
            /\ IF line[scn.pos] = "\\"
               THEN scn'.state = scn.state /\ scn'.pos = scn.pos + 2
               ELSE /\ scn'.pos = scn.pos + 1
                    /\ scn'.state = IF line[scn.pos] = scn.state.delimiter
                                    THEN Code ELSE scn.state
       /\ (pc' = "done" /\ lang = Python /\ file.bytes = PySample)
             => /\ hist'[1].kind = "Code"
                /\ stats'.code = 1
                /\ stats'.comments = 0
                /\ state' = Code
      ]_vars

C7_Witness ==
    /\ InString
    /\ lang = Python
    /\ StartsWith(line, scn.pos, <<"#">>)
    /\ \E k \in 1..(scn.pos - 1) : line[k] = "\\"

----------------------------------------------------------------------------
(* stats.rs: LanguageStats, Summary::from_file_stats *)

LanguageStats(n) ==
    [name |-> n, files |-> 0, code |-> 0, comments |-> 0, blanks |-> 0]

\* LanguageStats::add that counts the lines and not the file
LanguageStatsAddNoFile(ls, fs) ==
    [ls EXCEPT !.code = @ + fs.code,
               !.comments = @ + fs.comments,
               !.blanks = @ + fs.blanks]

\* LanguageStats::add
LanguageStatsAdd(ls, fs) ==
    [ls EXCEPT !.files = @ + 1,
               !.code = @ + fs.code,
               !.comments = @ + fs.comments,
               !.blanks = @ + fs.blanks]

\* by_language.entry(language).or_insert_with(..), then entry.add(file_stat)
ByLanguageAdd(by_language, fs) ==
    LET n == fs.language
    IN  IF n \in DOMAIN by_language
        THEN [by_language EXCEPT ![n] = LanguageStatsAdd(@, fs)]
        ELSE [m \in DOMAIN by_language \cup {n} |->
                 IF m = n THEN LanguageStatsAdd(LanguageStats(n), fs)
                 ELSE by_language[m]]

\* for file_stat in &stats
RECURSIVE ByLanguage(_, _)
ByLanguage(by_language, sts) ==
    IF sts = <<>> THEN by_language
    ELSE ByLanguage(ByLanguageAdd(by_language, Head(sts)), Tail(sts))

\* The orders into_values() can yield the values of a map in: the map is
\* hashed with per-process random keys, so any order of its keys.
IterationOrders(by_language) ==
    LET keys == DOMAIN by_language
    IN  {o \in [1..Cardinality(keys) -> keys] :
            \A i, j \in 1..Cardinality(keys) : i # j => o[i] # o[j]}

\* languages.sort_by(|a, b| b.code.cmp(&a.code)): a stable sort, so of two
\* aggregates with the same code the one that came first stays first.
SortInsert(sorted, x) ==
    LET k == Cardinality({i \in 1..Len(sorted) : sorted[i].code >= x.code})
    IN  SubSeq(sorted, 1, k) \o <<x>> \o SubSeq(sorted, k + 1, Len(sorted))

RECURSIVE SortByCodeDesc(_, _)
SortByCodeDesc(sorted, rest) ==
    IF rest = <<>> THEN sorted
    ELSE SortByCodeDesc(SortInsert(sorted, Head(rest)), Tail(rest))

\* languages.iter().map(|l| l.<field>).sum()
RECURSIVE SumOf(_, _)
SumOf(seq, field) ==
    IF seq = <<>> THEN 0 ELSE Head(seq)[field] + SumOf(Tail(seq), field)

\* Summary::from_file_stats, with the order into_values() yielded
from_file_stats(sts, order) ==
    LET by_language == ByLanguage(<<>>, sts)
        values == [i \in 1..Len(order) |-> by_language[order[i]]]
        languages == SortByCodeDesc(<<>>, values)
    IN  [languages |-> languages,
         total_files |-> SumOf(languages, "files"),
         total_code |-> SumOf(languages, "code"),
         total_comments |-> SumOf(languages, "comments"),
         total_blanks |-> SumOf(languages, "blanks"),
         file_stats |-> sts]

\* Error::NoSourceFiles
NoSourceFiles == "NoSourceFiles"

\* Err(e)
ErrOf(e) == [ok |-> FALSE, val |-> e]

\* LanguageBreakdown
LanguageBreakdown(n, files, code, comments, blanks) ==
    [name |-> n, files |-> files, code |-> code, comments |-> comments,
     blanks |-> blanks]

\* Analysis
Analysis(languages, files, code, comments, blanks) ==
    [languages |-> languages, total_files |-> files, total_code |-> code,
     total_comments |-> comments, total_blanks |-> blanks]

\* summary_to_analysis: the name is the registry's when the registry has
\* it and the aggregate's own otherwise, the same text either way
summary_to_analysis(sm) ==
    Analysis([i \in 1..Len(sm.languages) |->
                 LanguageBreakdown(sm.languages[i].name, sm.languages[i].files,
                                   sm.languages[i].code, sm.languages[i].comments,
                                   sm.languages[i].blanks)],
             sm.total_files, sm.total_code, sm.total_comments, sm.total_blanks)

\* top_language / top_language_fast: `analyze(path)?`, then
\* analysis.top_language().cloned().ok_or(Error::NoSourceFiles)
top_language(result) ==
    IF ~result.ok THEN result
    ELSE IF result.val.languages = <<>> THEN ErrOf(NoSourceFiles)
    ELSE Ok(result.val.languages[1])

\* The call of from_file_stats and the return of analyze_with_config
\* (lib.rs: `let summary = ...; Ok(summary_to_analysis(&summary))`)
Reduce ==
    /\ ppc = "reduce"
    /\ \E order \in IterationOrders(ByLanguage(<<>>, file_stats)) :
          summary' = from_file_stats(file_stats, order)
    /\ aresult' = Some(Ok(summary_to_analysis(summary')))
    /\ atop' = Some(top_language(Ok(summary_to_analysis(summary'))))
    /\ ppc' = "done"
    /\ UNCHANGED <<skip_uniqueness, entries, disk, hasher, seen_hashes, tasks, file_stats>>
    /\ UNCHANGED <<countVars, scanVars, detVars, walkVars>>

\* The per-file records of the enumerated inputs of from_file_stats
StatsInputs ==
    LET recs == [path : {ThePath}, language : {"C", "Python"},
                 code : 0..MaxCount, comments : 0..MaxCount,
                 blanks : 0..MaxCount]
    IN  SeqsUpTo(recs, MaxStats)

CountIdle ==
    /\ lang = C
    /\ file = Unreadable
    /\ pc = "idle"
    /\ reader = <<>>
    /\ state = Code
    /\ stats = FileStats(ThePath, C)
    /\ hist = <<>>

InitSummary ==
    /\ CountIdle
    /\ ScanIdle
    /\ DetectIdle
    /\ WalkIdle
    /\ entries = <<>>
    /\ disk = <<>>
    /\ hasher = <<>>
    /\ seen_hashes = {}
    /\ tasks = <<>>
    /\ ppc = "reduce"
    /\ file_stats \in StatsInputs
    /\ summary = NoSummary
    /\ aresult = None
    /\ atop = None
    /\ skip_uniqueness = FALSE

NextSummary == Reduce
SpecSummary == InitSummary /\ [][NextSummary]_vars

----------------------------------------------------------------------------
(* Claims about Summary::from_file_stats *)

\* The sum of a field over the records of one language
RECURSIVE SumWhere(_, _, _)
SumWhere(seq, field, n) ==
    IF seq = <<>> THEN 0
    ELSE (IF Head(seq).language = n THEN Head(seq)[field] ELSE 0)
         + SumWhere(Tail(seq), field, n)

RECURSIVE SumAll(_, _)
SumAll(seq, field) ==
    IF seq = <<>> THEN 0 ELSE Head(seq)[field] + SumAll(Tail(seq), field)

\* C8: one aggregate per distinct language of the input; its files is the
\* number of records of the language and its counters their sums; the
\* totals are the number of records and the sums over all records.
C8_Aggregates ==
    ppc = "done" =>
        LET L == summary.languages
            names == {file_stats[k].language : k \in 1..Len(file_stats)}
        IN  /\ {L[i].name : i \in 1..Len(L)} = names
            /\ Len(L) = Cardinality(names)
            /\ \A i \in 1..Len(L) :
                  /\ L[i].files =
                        Cardinality({k \in 1..Len(file_stats) :
                                        file_stats[k].language = L[i].name})
                  /\ L[i].code = SumWhere(file_stats, "code", L[i].name)
                  /\ L[i].comments = SumWhere(file_stats, "comments", L[i].name)
                  /\ L[i].blanks = SumWhere(file_stats, "blanks", L[i].name)
            /\ summary.total_files = Len(file_stats)
            /\ summary.total_code = SumAll(file_stats, "code")
            /\ summary.total_comments = SumAll(file_stats, "comments")
            /\ summary.total_blanks = SumAll(file_stats, "blanks")

C8_Witness ==
    /\ ppc = "done"
    /\ Len(file_stats) = 2
    /\ file_stats[1].language = file_stats[2].language
    /\ Len(summary.languages) = 1
    /\ summary.languages[1].files = 2
    /\ summary.total_code = 2

\* The order of the language names of the model
NameLess(a, b) == a = "C" /\ b = "Python"

\* C9: the language list is ordered by code descending, languages of equal
\* code by name, so the list is the same whatever order the records came in.
C9_TiesByName ==
    ppc = "done" =>
        \A i, j \in 1..Len(summary.languages) :
            i < j =>
                \/ summary.languages[i].code > summary.languages[j].code
                \/ /\ summary.languages[i].code = summary.languages[j].code
                   /\ NameLess(summary.languages[i].name,
                               summary.languages[j].name)

----------------------------------------------------------------------------
(* lib.rs: analyze_with_config, the parallel pipeline *)

\* The contents of the files of the enumerated walks: an empty file, a line
\* that is a comment in Python and code in C, a line of code.
ContentSeq == << <<>>, <<"#", "\n">>, <<"x", "\n">> >>
Contents == Range(ContentSeq)
PipeFiles == {Readable(b) : b \in Contents} \cup {Unreadable}
PipeLangs == {C, Python}

\* AHasher::default() is one fixed function from contents to u64 whose
\* values the model does not compute: it may be any function, and two
\* contents may have the same hash.  A number stands for each distinct u64
\* (the first content of the walk has 1, each next one a number already
\* given or the next number).
ContentIndex(b) == CHOOSE k \in 1..Len(ContentSeq) : ContentSeq[k] = b
Hashers(cs) ==
    {h \in [cs -> 1..Len(ContentSeq)] :
        \A b \in cs :
            h[b] <= 1 + MaxOf({0} \cup {h[d] : d \in
                        {e \in cs : ContentIndex(e) < ContentIndex(b)}})}

\* compute_file_hash that gives a file it cannot read the first hash
compute_file_hash_of_unread(f) ==
    IF ~f.readable THEN Ok(1) ELSE Ok(hasher[f.bytes])

\* counter.rs: compute_file_hash
compute_file_hash(f) ==
    IF ~f.readable THEN Err ELSE Ok(hasher[f.bytes])

\* DashSet::insert that reports every hash as new
InsertAlwaysNew(seen, h) == TRUE

\* What DashSet::insert returns: whether the hash was not in the set
InsertIsNew(seen, h) == h \notin seen

\* WalkerConfig::default(), the field config_to_walker leaves as it is
WalkerConfigDefault == [skip_uniqueness |-> FALSE]

Task(p, h, o, sc) == [pc |-> p, hash |-> h, out |-> o, scanned |-> sc]

PipeStart(es, d, h) ==
    /\ entries = es
    /\ disk = d
    /\ hasher = h
    /\ seen_hashes = {}
    /\ tasks = [i \in 1..Len(es) |-> Task("hash", 0, None, FALSE)]
    /\ ppc = "start"
    /\ file_stats = <<>>
    /\ summary = NoSummary
    /\ aresult = None
    /\ atop = None
    /\ skip_uniqueness = WalkerConfigDefault.skip_uniqueness

\* if files.is_empty() { return Err(Error::NoSourceFiles) }
StartPipeline ==
    /\ ppc = "start"
    /\ IF entries = <<>>
       THEN /\ ppc' = "NoSourceFiles"
            /\ aresult' = Some(ErrOf(NoSourceFiles))
            /\ atop' = Some(top_language(ErrOf(NoSourceFiles)))
       ELSE /\ ppc' = "par"
            /\ UNCHANGED <<aresult, atop>>
    /\ UNCHANGED <<skip_uniqueness, entries, disk, hasher, seen_hashes, tasks, file_stats,
                   summary, countVars, scanVars, detVars, walkVars>>

\* counter::compute_file_hash(&entry.path)
TaskHash(i) ==
    /\ ppc = "par"
    /\ tasks[i].pc = "hash"
    /\ LET h == compute_file_hash(disk[entries[i].path])
       IN  tasks' = [tasks EXCEPT ![i] =
                        IF h.ok THEN Task("insert", h.val, None, FALSE)
                        ELSE Task("count", 0, None, FALSE)]
    /\ UNCHANGED <<skip_uniqueness, entries, disk, hasher, seen_hashes, ppc, file_stats,
                   summary, aresult, atop,
                   countVars, scanVars, detVars, walkVars>>

\* if !seen_hashes.insert(hash) { return None; }
TaskInsert(i) ==
    /\ ppc = "par"
    /\ tasks[i].pc = "insert"
    /\ IF InsertIsNew(seen_hashes, tasks[i].hash)
       THEN /\ seen_hashes' = seen_hashes \cup {tasks[i].hash}
            /\ tasks' = [tasks EXCEPT ![i].pc = "count"]
       ELSE /\ seen_hashes' = seen_hashes
            /\ tasks' = [tasks EXCEPT ![i].pc = "done"]
    /\ UNCHANGED <<skip_uniqueness, entries, disk, hasher, ppc, file_stats, summary,
                   aresult, atop, countVars, scanVars, detVars, walkVars>>

\* What count_lines returns for each path, file and language of the
\* enumerated walks
CountLinesOf ==
    [p \in 1..MaxEntries, f \in PipeFiles, l \in PipeLangs |->
        count_lines(p, f, l)]

\* match counter::count_lines(&entry.path, entry.language)
TaskCount(i) ==
    /\ ppc = "par"
    /\ tasks[i].pc = "count"
    /\ LET r == CountLinesOf[entries[i].path, disk[entries[i].path],
                              entries[i].language]
       IN  tasks' = [tasks EXCEPT ![i] =
                        Task("done", @.hash,
                             IF r.ok /\ Total(r.val) > 0 THEN Some(r.val)
                             ELSE None,
                             TRUE)]
    /\ UNCHANGED <<skip_uniqueness, entries, disk, hasher, seen_hashes, ppc, file_stats,
                   summary, aresult, atop,
                   countVars, scanVars, detVars, walkVars>>

\* What filter_map kept, in the order of the entries
RECURSIVE Kept(_, _)
Kept(ts, i) ==
    IF i > Len(ts) THEN <<>>
    ELSE (IF ts[i].out = None THEN <<>> ELSE <<ts[i].out[1]>>) \o Kept(ts, i + 1)

\* .collect(): every task has returned
Collect ==
    /\ ppc = "par"
    /\ \A i \in 1..Len(tasks) : tasks[i].pc = "done"
    /\ file_stats' = Kept(tasks, 1)
    /\ ppc' = "reduce"
    /\ UNCHANGED <<skip_uniqueness, entries, disk, hasher, seen_hashes, tasks, summary,
                   aresult, atop, countVars, scanVars, detVars, walkVars>>

\* The languages of the walked files and how many files each has
\* (by_language.entry(entry.language.name).or_insert(0) += 1)
FilesByLanguage(files) ==
    [n \in {files[i].language.name : i \in 1..Len(files)} |->
        Cardinality({i \in 1..Len(files) : files[i].language.name = n})]

\* languages.sort_by(|a, b| b.files.cmp(&a.files)), a stable sort
RECURSIVE SortByFilesDesc(_, _)
SortByFilesDesc(sorted, rest) ==
    IF rest = <<>> THEN sorted
    ELSE LET x == Head(rest)
             k == Cardinality({i \in 1..Len(sorted) : sorted[i].files >= x.files})
         IN  SortByFilesDesc(SubSeq(sorted, 1, k) \o <<x>> \o
                                SubSeq(sorted, k + 1, Len(sorted)),
                             Tail(rest))

\* analyze_fast_with_config without the check for an empty walk
analyze_fast_unchecked(files, order) ==
    LET by_language == FilesByLanguage(files)
        languages == SortByFilesDesc(<<>>,
                        [i \in 1..Len(order) |->
                            LanguageBreakdown(order[i], by_language[order[i]], 0, 0, 0)])
    IN  Ok(Analysis(languages, SumOf(languages, "files"), 0, 0, 0))

\* analyze_fast_with_config, the map iterated in the order `order`
analyze_fast_with_config(files, order) ==
    IF files = <<>> THEN ErrOf(NoSourceFiles)
    ELSE LET by_language == FilesByLanguage(files)
             languages == SortByFilesDesc(<<>>,
                             [i \in 1..Len(order) |->
                                 LanguageBreakdown(order[i], by_language[order[i]], 0, 0, 0)])
         IN  Ok(Analysis(languages, SumOf(languages, "files"), 0, 0, 0))

\* The call of analyze_fast_with_config on the walked files
AnalyzeFast ==
    /\ ppc = "start"
    /\ \E order \in IterationOrders(FilesByLanguage(entries)) :
          /\ aresult' = Some(analyze_fast_with_config(entries, order))
          /\ atop' = Some(top_language(analyze_fast_with_config(entries, order)))
    /\ ppc' = "fast"
    /\ UNCHANGED <<skip_uniqueness, entries, disk, hasher, seen_hashes, tasks, file_stats,
                   summary, countVars, scanVars, detVars, walkVars>>

\* The walks handed to the pipeline: up to MaxEntries entries with distinct
\* paths, each path a file of PipeFiles resolved to a language of PipeLangs.
InitPipeline ==
    /\ CountIdle
    /\ ScanIdle
    /\ DetectIdle
    /\ WalkIdle
    /\ \E n \in 0..MaxEntries :
          \E fl \in [1..n -> PipeFiles], ls \in [1..n -> PipeLangs] :
             \E h \in Hashers({fl[i].bytes : i \in {j \in 1..n : fl[j].readable}}) :
                PipeStart([i \in 1..n |-> [path |-> i, language |-> ls[i]]],
                          fl, h)

\* The tasks run on a work-stealing pool: any task may take its next step.
HashStep == \E i \in 1..Len(entries) : TaskHash(i)
InsertStep == \E i \in 1..Len(entries) : TaskInsert(i)
CountStep == \E i \in 1..Len(entries) : TaskCount(i)

NextPipeline ==
    \/ StartPipeline \/ HashStep \/ InsertStep \/ CountStep \/ Collect \/ Reduce
    \/ AnalyzeFast
SpecPipeline == InitPipeline /\ [][NextPipeline]_vars

----------------------------------------------------------------------------
(* main.rs: run, the pipeline of the command line *)

\* The state at the call of walk_files in run: the flag is what the command
\* line gave (config.skip_uniqueness = self.skip_uniqueness), the closure
\* of filter_map begins at count_lines
RunStart(es, d, h, skip) ==
    /\ entries = es
    /\ disk = d
    /\ hasher = h
    /\ seen_hashes = {}
    /\ tasks = [i \in 1..Len(es) |-> Task("count", 0, None, FALSE)]
    /\ ppc = "run"
    /\ file_stats = <<>>
    /\ summary = NoSummary
    /\ aresult = None
    /\ atop = None
    /\ skip_uniqueness = skip

\* if files.is_empty() { eprintln!("No source files found."); return Ok(()) }
RunFiles ==
    /\ ppc = "run"
    /\ ppc' = IF entries = <<>> THEN "run_empty" ELSE "run_par"
    /\ UNCHANGED <<skip_uniqueness, entries, disk, hasher, seen_hashes, tasks,
                   file_stats, summary, aresult, atop,
                   countVars, scanVars, detVars, walkVars>>

\* match count_lines(&entry.path, entry.language): Ok with a line is kept,
\* Ok without one is dropped, Err is warned of and dropped
RunCount(i) ==
    /\ ppc = "run_par"
    /\ tasks[i].pc = "count"
    /\ LET r == CountLinesOf[entries[i].path, disk[entries[i].path],
                              entries[i].language]
       IN  tasks' = [tasks EXCEPT ![i] =
                        Task("done", @.hash,
                             IF r.ok /\ Total(r.val) > 0 THEN Some(r.val)
                             ELSE None,
                             TRUE)]
    /\ UNCHANGED <<skip_uniqueness, entries, disk, hasher, seen_hashes, ppc,
                   file_stats, summary, aresult, atop,
                   countVars, scanVars, detVars, walkVars>>

\* .collect() in run that does not wait for the closures
RunCollectEarly ==
    /\ ppc = "run_par"
    /\ file_stats' = Kept(tasks, 1)
    /\ ppc' = "run_reduce"
    /\ UNCHANGED <<skip_uniqueness, entries, disk, hasher, seen_hashes, tasks,
                   summary, aresult, atop,
                   countVars, scanVars, detVars, walkVars>>

\* .collect() in run: every closure has returned
RunCollect ==
    /\ ppc = "run_par"
    /\ \A i \in 1..Len(tasks) : tasks[i].pc = "done"
    /\ file_stats' = Kept(tasks, 1)
    /\ ppc' = "run_reduce"
    /\ UNCHANGED <<skip_uniqueness, entries, disk, hasher, seen_hashes, tasks,
                   summary, aresult, atop,
                   countVars, scanVars, detVars, walkVars>>

\* let summary = Summary::from_file_stats(file_stats)
RunReduce ==
    /\ ppc = "run_reduce"
    /\ \E order \in IterationOrders(ByLanguage(<<>>, file_stats)) :
          summary' = from_file_stats(file_stats, order)
    /\ ppc' = "run_done"
    /\ UNCHANGED <<skip_uniqueness, entries, disk, hasher, seen_hashes, tasks,
                   file_stats, aresult, atop,
                   countVars, scanVars, detVars, walkVars>>

InitRun ==
    /\ CountIdle
    /\ ScanIdle
    /\ DetectIdle
    /\ WalkIdle
    /\ \E n \in 0..MaxEntries :
          \E fl \in [1..n -> PipeFiles], ls \in [1..n -> PipeLangs] :
             \E h \in Hashers({fl[i].bytes : i \in {j \in 1..n : fl[j].readable}}) :
                \E skip \in BOOLEAN :
                   RunStart([i \in 1..n |-> [path |-> i, language |-> ls[i]]],
                            fl, h, skip)

RunCountStep == \E i \in 1..Len(entries) : RunCount(i)

\* Both pipelines, each closure of filter_map run by a worker of the pool
\* that is never left waiting for ever, and the calling thread going on
\* as soon as it can
WorkerStep(i) ==
    /\ i \in 1..Len(entries)
    /\ TaskHash(i) \/ TaskInsert(i) \/ TaskCount(i) \/ RunCount(i)

CallerStep == StartPipeline \/ Collect \/ Reduce \/ RunFiles \/ RunCollect \/ RunReduce

NextWorkers ==
    \/ StartPipeline \/ HashStep \/ InsertStep \/ CountStep \/ Collect \/ Reduce
    \/ RunFiles \/ RunCountStep \/ RunCollect \/ RunReduce

FairWorkers ==
    /\ InitPipeline \/ InitRun
    /\ [][NextWorkers]_vars
    /\ WF_vars(CallerStep)
    /\ \A i \in 1..MaxEntries : WF_vars(WorkerStep(i))

----------------------------------------------------------------------------
(* Claims about the pipeline *)

\* The entries whose file has the content of entry i's file
SameContent(i) ==
    {j \in 1..Len(entries) :
        disk[j].readable /\ disk[j].bytes = disk[i].bytes}

\* No file of another content has the hash of entry i's file.
NoCollision(i) ==
    disk[i].readable =>
        \A j \in 1..Len(entries) :
            (disk[j].readable /\ disk[j].bytes # disk[i].bytes)
                => hasher[disk[j].bytes] # hasher[disk[i].bytes]

\* The records of file_stats that come from the entries of G
RecordsOf(G) == {k \in 1..Len(file_stats) : file_stats[k].path \in G}

\* C2 as stated: of the entries with one content exactly one is scanned and
\* counted (total files = 1 for that content), under every interleaving;
\* the others are skipped.
C2_ExactlyOneCounted ==
    ppc = "done" =>
        \A i \in 1..Len(entries) :
            (disk[i].readable /\ NoCollision(i)) =>
                /\ Cardinality({j \in SameContent(i) : tasks[j].scanned}) = 1
                /\ Cardinality(RecordsOf(SameContent(i))) = 1

\* C2 amended: of the entries with one content (whose hash no other content
\* of the walk shares) exactly one is scanned, under every interleaving; it
\* is counted (total files = 1 for that content) when its scan tallies at
\* least one line and no file of that content is counted when it tallies
\* none (an empty or binary file); the others are skipped, not counted.
C2_OneScannedCountedIfLines ==
    ppc = "done" =>
        /\ summary.total_files = Len(file_stats)
        /\ \A i \in 1..Len(entries) :
              (disk[i].readable /\ NoCollision(i)) =>
                  /\ Cardinality({j \in SameContent(i) : tasks[j].scanned}) = 1
                  /\ \A j \in SameContent(i) :
                        ~tasks[j].scanned => tasks[j].out = None
                  /\ Cardinality(RecordsOf(SameContent(i))) =
                        IF /\ NumLinesRead(disk[i].bytes) > 0
                           /\ ~is_binary(disk[i].bytes)
                        THEN 1 ELSE 0

\* Two entries with one content, the second scanned and counted and the
\* first skipped.
C2_Witness ==
    /\ ppc = "done"
    /\ Len(entries) >= 2
    /\ SameContent(1) = 1..Len(entries)
    /\ tasks[2].out # None
    /\ ~tasks[1].scanned
    /\ summary.total_files = 1

\* The pipeline with the tasks run one after the other, in entry order
RECURSIVE InOrder(_, _)
InOrder(i, seen) ==
    IF i > Len(entries) THEN <<>>
    ELSE LET h == compute_file_hash(disk[entries[i].path])
             r == count_lines(entries[i].path, disk[entries[i].path],
                              entries[i].language)
         IN  IF h.ok /\ h.val \in seen THEN InOrder(i + 1, seen)
             ELSE (IF r.ok /\ Total(r.val) > 0 THEN <<r.val>> ELSE <<>>)
                  \o InOrder(i + 1, IF h.ok THEN seen \cup {h.val} ELSE seen)

\* The totals of a summary: overall, and per language in no order
Totals(sm) ==
    [languages |-> {sm.languages[k] : k \in 1..Len(sm.languages)},
     files |-> sm.total_files, code |-> sm.total_code,
     comments |-> sm.total_comments, blanks |-> sm.total_blanks]

InOrderSummary ==
    LET sts == InOrder(1, {})
    IN  from_file_stats(sts,
            CHOOSE o \in IterationOrders(ByLanguage(<<>>, sts)) : TRUE)

\* C3: for fixed entries (no two contents sharing a hash) the totals of the
\* summary, overall and per language, are the same under every scheduling:
\* every run ends with the totals of the run that takes the tasks in order.
C3_TotalsFixed ==
    (ppc = "done" /\ \A i \in 1..Len(entries) : NoCollision(i))
        => Totals(summary) = Totals(InOrderSummary)


----------------------------------------------------------------------------
(* languages.rs: the registry and detect_language;
   custom_langs.rs: the user-defined rules *)

shell_style(n) ==
    Language(n, << <<"#">> >>, None, None, FALSE, << <<"\"">>, <<"'">> >>)

\* The entries of LANGUAGES the paths of the model can resolve to
LANGUAGES ==
    ("Rust" :> Rust) @@ ("C#" :> c_style("C#")) @@
    ("TypeScript" :> c_style("TypeScript")) @@
    ("JavaScript" :> c_style("JavaScript")) @@ ("TSX" :> c_style("TSX")) @@
    ("Bash" :> shell_style("Bash")) @@ ("TOML" :> shell_style("TOML")) @@
    ("Makefile" :> shell_style("Makefile")) @@
    ("CMake" :> shell_style("CMake")) @@
    ("C# Generated" :> c_style("C# Generated")) @@ ("Text" :> LangNew("Text"))

\* phf::Map::get
MapGet(m, k) == IF k \in DOMAIN m THEN Some(m[k]) ELSE None

\* The keys of EXTENSION_MAP the paths of the model can carry
EXTENSION_MAP ==
    (<<"r", "s">> :> "Rust") @@ (<<"c", "s">> :> "C#") @@ (<<"t", "s">> :> "TypeScript") @@
    (<<"t", "o", "m", "l">> :> "TOML") @@ (<<"t", "x", "t">> :> "Text") @@
    (<<"j", "s">> :> "JavaScript") @@ (<<"t", "s", "x">> :> "TSX")

\* The keys of FILENAME_MAP the paths of the model can carry
FILENAME_MAP ==
    (<<"M", "a", "k", "e", "f", "i", "l", "e">> :> "Makefile") @@
    (<<"C", "M", "a", "k", "e", "L", "i", "s", "t", "s", ".", "t", "x", "t">> :> "CMake") @@
    (<<".", "b", "a", "s", "h", "r", "c">> :> "Bash") @@
    (<<"C", "a", "r", "g", "o", ".", "t", "o", "m", "l">> :> "TOML")

UpperSeq == <<"A", "B", "C", "D", "E", "F", "G", "H", "I", "J", "K", "L", "M", "N", "O", "P", "Q", "R", "S", "T", "U", "V", "W", "X", "Y", "Z">>
LowerSeq == <<"a", "b", "c", "d", "e", "f", "g", "h", "i", "j", "k", "l", "m", "n", "o", "p", "q", "r", "s", "t", "u", "v", "w", "x", "y", "z">>

\* char::to_lowercase on the characters of the model, str::to_lowercase
Lower(c) ==
    IF \E k \in 1..Len(UpperSeq) : UpperSeq[k] = c
    THEN LowerSeq[CHOOSE k \in 1..Len(UpperSeq) : UpperSeq[k] = c]
    ELSE c
ToLowercase(s) == [i \in 1..Len(s) |-> Lower(s[i])]

\* OsStr::to_str: None for a name that is not valid UTF-8
to_str(os) == IF BAD \in Range(os) THEN None ELSE Some(os)

\* The components of a path between its separators
RECURSIVE SplitOn(_, _)
SplitOn(s, sep) ==
    IF \A i \in 1..Len(s) : s[i] # sep
    THEN <<s>>
    ELSE LET k == CHOOSE i \in 1..Len(s) :
                     s[i] = sep /\ \A j \in 1..(i - 1) : s[j] # sep
         IN  <<SubSeq(s, 1, k - 1)>> \o SplitOn(SubSeq(s, k + 1, Len(s)), sep)

\* Path::file_name: the last component, None when it is `..` or missing
FileName(path) ==
    LET comps == SelectSeq(SplitOn(path, "/"),
                           LAMBDA c : c # <<>> /\ c # <<".">>)
    IN  IF comps = <<>> \/ comps[Len(comps)] = <<".", ".">>
        THEN None
        ELSE Some(comps[Len(comps)])

\* Path::extension: what follows the last dot of the file name, None when
\* there is no dot or the only dot leads the name
Extension(path) ==
    LET fn == FileName(path)
    IN  IF fn = None THEN None
        ELSE LET f == fn[1]
                 dots == {i \in 1..Len(f) : f[i] = "."}
             IN  IF dots = {} \/ MaxOf(dots \cup {0}) = 1
                 THEN None
                 ELSE Some(SubSeq(f, MaxOf(dots) + 1, Len(f)))

\* path.extension().and_then(|e| e.to_str())
ExtStr(path) ==
    IF Extension(path) = None THEN None ELSE to_str(Extension(path)[1])

\* path.file_name().and_then(|n| n.to_str())
FileNameStr(path) ==
    IF FileName(path) = None THEN None ELSE to_str(FileName(path)[1])

\* CustomLanguageDef
CustomLanguageDef(exts, lc, bs, be, nested, sd) ==
    [extensions |-> exts, line_comments |-> lc, block_comment_start |-> bs,
     block_comment_end |-> be, nested_comments |-> nested,
     string_delimiters |-> sd]

default_string_delimiters == << <<"\"">>, <<"'">> >>

\* The Language that load leaks for a definition
CustomLanguage(name, def) ==
    Language(name, def.line_comments, def.block_comment_start,
             def.block_comment_end, def.nested_comments,
             def.string_delimiters)

\* The two maps load builds from the definitions, taken in the order the
\* HashMap of definitions iterates: a later definition's extension
\* replaces an earlier one's.
RECURSIVE BuildExtensions(_)
BuildExtensions(defs) ==
    IF defs = <<>> THEN <<>>
    ELSE LET d == defs[Len(defs)]
             rest == BuildExtensions(SubSeq(defs, 1, Len(defs) - 1))
             own == {ToLowercase(d.def.extensions[k]) :
                        k \in 1..Len(d.def.extensions)}
         IN  [e \in own |-> d.name] @@ rest

BuildLanguages(defs) ==
    [n \in {defs[k].name : k \in 1..Len(defs)} |->
        CustomLanguage(n, defs[CHOOSE k \in 1..Len(defs) :
                                  defs[k].name = n].def)]


\* CustomLanguages::get_by_extension
get_by_extension(cl, ext) ==
    IF cl = None THEN None
    ELSE LET lang_name == MapGet(cl[1].extensions, ToLowercase(ext))
         IN  IF lang_name = None THEN None
             ELSE MapGet(cl[1].languages, lang_name[1])

GeneratedSuffixes == {<<".", "g", ".", "c", "s">>, <<".", "d", "e", "s", "i", "g", "n", "e", "r", ".", "c", "s">>}

\* detect_language with the extension map consulted before the filename
\* map and the suffix rule
detect_builtin_ext_first(path) ==
    LET filename == FileNameStr(path)
        ext == ExtStr(path)
    IN  IF ext # None /\ ext[1] \in DOMAIN EXTENSION_MAP
        THEN MapGet(LANGUAGES, EXTENSION_MAP[ext[1]])
        ELSE IF filename # None /\ filename[1] \in DOMAIN FILENAME_MAP
        THEN MapGet(LANGUAGES, FILENAME_MAP[filename[1]])
        ELSE IF filename # None
                /\ \E suf \in GeneratedSuffixes :
                      EndsWith(ToLowercase(filename[1]), suf)
        THEN MapGet(LANGUAGES, "C# Generated")
        ELSE None

\* detect_language after the custom languages: filename map, generated
\* C# suffixes, extension map, None
detect_builtin(path) ==
    LET filename == FileNameStr(path)
        ext == ExtStr(path)
    IN  IF filename # None /\ filename[1] \in DOMAIN FILENAME_MAP
        THEN MapGet(LANGUAGES, FILENAME_MAP[filename[1]])
        ELSE IF filename # None
                /\ \E suf \in GeneratedSuffixes :
                      EndsWith(ToLowercase(filename[1]), suf)
        THEN MapGet(LANGUAGES, "C# Generated")
        ELSE IF ext # None /\ ext[1] \in DOMAIN EXTENSION_MAP
        THEN MapGet(LANGUAGES, EXTENSION_MAP[ext[1]])
        ELSE None

\* detect_language with the custom languages consulted last
detect_language_builtin_first(cl, path) ==
    LET ext == ExtStr(path)
        user == IF ext = None THEN None ELSE get_by_extension(cl, ext[1])
    IN  IF detect_builtin(path) # None THEN detect_builtin(path) ELSE user

detect_language(cl, path) ==
    LET ext == ExtStr(path)
        user == IF ext = None THEN None ELSE get_by_extension(cl, ext[1])
    IN  IF user # None THEN user ELSE detect_builtin(path)

\* A file of user-defined rules: whether read_to_string succeeds, whether
\* serde_yaml parses it, and the definitions it then yields
RuleFile(r, ok, ds) == [readable |-> r, parses |-> ok, defs |-> ds]

RulesUnreadable == RuleFile(FALSE, FALSE, {})
RulesMalformed == RuleFile(TRUE, FALSE, {})
RulesMy ==
    RuleFile(TRUE, TRUE,
        {[name |-> "MyLang",
          def |-> CustomLanguageDef(<<<<"m", "y">>, <<"R", "S">>>>, << <<"#">> >>, None,
                                    None, FALSE, default_string_delimiters)]})
RulesTwo ==
    RuleFile(TRUE, TRUE,
        {[name |-> "Alpha",
          def |-> CustomLanguageDef(<<<<"t", "x", "t">>>>, <<>>, None, None, FALSE,
                                    default_string_delimiters)],
         [name |-> "Beta",
          def |-> CustomLanguageDef(<<<<"T", "X", "T">>, <<"c", "s">>>>, << <<"/", "/">> >>,
                                    Some(<<"/", "*">>), Some(<<"*", "/">>),
                                    TRUE, default_string_delimiters)]})
\* A file whose one definition sets nested_comments, names no block
\* comment tokens and lists an empty line comment token
RulesLoose ==
    RuleFile(TRUE, TRUE,
        {[name |-> "Loose",
          def |-> CustomLanguageDef(<<<<"l", "o">>>>, << <<>> >>, None, None,
                                    TRUE, default_string_delimiters)]})
RuleFiles == {RulesUnreadable, RulesMalformed, RulesMy, RulesTwo, RulesLoose}

\* The orders in which a HashMap of definitions can iterate
DefOrders(ds) ==
    {o \in [1..Cardinality(ds) -> ds] :
        \A i, j \in 1..Cardinality(ds) : i # j => o[i] # o[j]}

\* CustomLanguages::load with a cell that can be set again
LoadOverwrites(f) ==
    /\ Len(load_ret) < MaxLoads
    /\ IF ~f.readable
       THEN /\ load_ret' = Append(load_ret, "Failed to read")
            /\ UNCHANGED custom_languages
       ELSE IF ~f.parses
       THEN /\ load_ret' = Append(load_ret, "Failed to parse")
            /\ UNCHANGED custom_languages
       ELSE \E defs \in DefOrders(f.defs) :
               /\ custom_languages' =
                     Some([languages |-> BuildLanguages(defs),
                           extensions |-> BuildExtensions(defs)])
               /\ load_ret' = Append(load_ret, "Ok")
    /\ UNCHANGED <<dpath, detected, dcl>>
    /\ UNCHANGED <<countVars, scanVars, pipeVars, walkVars>>

\* CustomLanguages::load with a cell that a failed load sets to an empty
\* registry
LoadFailureSets(f) ==
    /\ Len(load_ret) < MaxLoads
    /\ IF ~f.readable \/ ~f.parses
       THEN /\ load_ret' = Append(load_ret, IF f.readable THEN "Failed to parse"
                                            ELSE "Failed to read")
            /\ custom_languages' =
                  IF custom_languages = None
                  THEN Some([languages |-> <<>>, extensions |-> <<>>])
                  ELSE custom_languages
       ELSE \E defs \in DefOrders(f.defs) :
               LET built == [languages |-> BuildLanguages(defs),
                             extensions |-> BuildExtensions(defs)]
               IN  IF custom_languages = None
                   THEN /\ custom_languages' = Some(built)
                        /\ load_ret' = Append(load_ret, "Ok")
                   ELSE /\ load_ret' = Append(load_ret,
                                          "Custom languages already loaded")
                        /\ UNCHANGED custom_languages
    /\ UNCHANGED <<dpath, detected, dcl>>
    /\ UNCHANGED <<countVars, scanVars, pipeVars, walkVars>>

\* CustomLanguages::load
Load(f) ==
    /\ Len(load_ret) < MaxLoads
    /\ IF ~f.readable
       THEN /\ load_ret' = Append(load_ret, "Failed to read")
            /\ UNCHANGED custom_languages
       ELSE IF ~f.parses
       THEN /\ load_ret' = Append(load_ret, "Failed to parse")
            /\ UNCHANGED custom_languages
       ELSE \E defs \in DefOrders(f.defs) :
               LET built == [languages |-> BuildLanguages(defs),
                             extensions |-> BuildExtensions(defs)]
               IN  IF custom_languages = None
                   THEN /\ custom_languages' = Some(built)
                        /\ load_ret' = Append(load_ret, "Ok")
                   ELSE /\ load_ret' = Append(load_ret,
                                          "Custom languages already loaded")
                        /\ UNCHANGED custom_languages
    /\ UNCHANGED <<dpath, detected, dcl>>
    /\ UNCHANGED <<countVars, scanVars, pipeVars, walkVars>>

\* A call of detect_language
Detect(path) ==
    /\ dpath' = Some(path)
    /\ detected' = detect_language(custom_languages, path)
    /\ dcl' = custom_languages
    /\ UNCHANGED <<custom_languages, load_ret>>
    /\ UNCHANGED <<countVars, scanVars, pipeVars, walkVars>>

DetectNames ==
    {<<"t", "e", "s", "t", ".", "r", "s">>,
     <<"t", "e", "s", "t", ".", "t", "s">>,
     <<"t", "e", "s", "t", ".", "u", "n", "k", "n", "o", "w", "n">>,
     <<"C", "M", "a", "k", "e", "L", "i", "s", "t", "s", ".", "t", "x", "t">>,
     <<"c", "m", "a", "k", "e", "l", "i", "s", "t", "s", ".", "t", "x", "t">>,
     <<"n", "o", "t", "e", "s", ".", "t", "x", "t">>,
     <<"M", "a", "k", "e", "f", "i", "l", "e">>,
     <<"F", "o", "o", ".", "g", ".", "c", "s">>,
     <<"F", "o", "o", ".", "D", "e", "s", "i", "g", "n", "e", "r", ".", "c", "s">>,
     <<"F", "O", "O", ".", "G", ".", "C", "S">>,
     <<"a", ".", "c", "s">>,
     <<".", "g", ".", "c", "s">>,
     <<"g", ".", "c", "s">>,
     <<".", "b", "a", "s", "h", "r", "c">>,
     <<"R", "E", "A", "D", "M", "E">>,
     <<"a", ".", "R", "S">>,
     <<"x", ".", "m", "y">>,
     <<"a", ".">>,
     <<"C", "a", "r", "g", "o", ".", "t", "o", "m", "l">>,
     <<".", ".">>,
     <<BAD, ".", "g", ".", "c", "s">>,
     <<BAD, ".", "r", "s">>,
     <<"a", ".", BAD>>}
DetectDirs == {<<>>, <<"s", "r", "c", "/">>, <<"a", ".", "r", "s", "/">>}
DetectPaths == {d \o n : d \in DetectDirs, n \in DetectNames}

LoadStep == \E f \in RuleFiles : Load(f)
DetectStep == \E path \in DetectPaths : Detect(path)

InitDetect ==
    /\ CountIdle
    /\ ScanIdle
    /\ PipeIdle
    /\ DetectIdle
    /\ WalkIdle

NextDetect == LoadStep \/ DetectStep

SpecDetect == InitDetect /\ [][NextDetect]_vars

----------------------------------------------------------------------------
(* Resolution order of detect_language *)

\* No user-defined mapping applies to the path: nothing is loaded, or the
\* path has no extension that is text, or its lowercased extension is not
\* keyed.
NoUserMapping(path) ==
    \/ custom_languages = None
    \/ ExtStr(path) = None
    \/ ToLowercase(ExtStr(path)[1]) \notin DOMAIN custom_languages[1].extensions

\* The base name of the path as text; a name that is not valid UTF-8 has
\* none, and so neither a filename-map match nor a lowercased form.
BaseName(path) == FileNameStr(path)

InFilenameMap(path) ==
    BaseName(path) # None /\ BaseName(path)[1] \in DOMAIN FILENAME_MAP

IsGeneratedName(path) ==
    /\ BaseName(path) # None
    /\ \/ EndsWith(ToLowercase(BaseName(path)[1]), <<".", "g", ".", "c", "s">>)
       \/ EndsWith(ToLowercase(BaseName(path)[1]), <<".", "d", "e", "s", "i", "g", "n", "e", "r", ".", "c", "s">>)

InExtensionMap(path) ==
    ExtStr(path) # None /\ ExtStr(path)[1] \in DOMAIN EXTENSION_MAP

\* C10: when no user-defined mapping applies to the path, detect resolves
\* it in this order: a base name keyed by the filename map gets that
\* language whatever its extension (CMakeLists.txt is CMake, not Text);
\* otherwise a base name whose lowercased form ends in .g.cs or
\* .designer.cs is "C# Generated" (not C#); otherwise the extension map's
\* language for the extension; otherwise none.
C10_DetectOrder ==
    (dpath # None /\ NoUserMapping(dpath[1])) =>
        LET path == dpath[1]
        IN  /\ InFilenameMap(path) =>
                  detected = Some(LANGUAGES[FILENAME_MAP[BaseName(path)[1]]])
            /\ (~InFilenameMap(path) /\ IsGeneratedName(path)) =>
                  /\ detected = Some(LANGUAGES["C# Generated"])
                  /\ detected # Some(LANGUAGES["C#"])
            /\ (~InFilenameMap(path) /\ ~IsGeneratedName(path)
                   /\ InExtensionMap(path)) =>
                  detected = Some(LANGUAGES[EXTENSION_MAP[ExtStr(path)[1]]])
            /\ (~InFilenameMap(path) /\ ~IsGeneratedName(path)
                   /\ ~InExtensionMap(path)) =>
                  detected = None
            /\ BaseName(path) = Some(<<"C", "M", "a", "k", "e", "L", "i", "s", "t", "s", ".", "t", "x", "t">>) =>
                  /\ detected # None
                  /\ detected[1].name = "CMake"
                  /\ detected[1].name # LANGUAGES[EXTENSION_MAP[<<"t", "x", "t">>]].name
            /\ BaseName(path) \in {Some(<<"F", "o", "o", ".", "g", ".", "c", "s">>), Some(<<"F", "o", "o", ".", "D", "e", "s", "i", "g", "n", "e", "r", ".", "c", "s">>), Some(<<"F", "O", "O", ".", "G", ".", "C", "S">>)}
                  => (detected # None /\ detected[1].name = "C# Generated")

\* detect was called on CMakeLists.txt in a directory, with user-defined
\* rules loaded that do not key txt, and answered CMake
C10_Witness ==
    /\ custom_languages # None
    /\ dpath = Some(<<"s", "r", "c", "/">> \o <<"C", "M", "a", "k", "e", "L", "i", "s", "t", "s", ".", "t", "x", "t">>)
    /\ NoUserMapping(dpath[1])
    /\ InExtensionMap(dpath[1])
    /\ detected # None
    /\ detected[1].name = "CMake"


----------------------------------------------------------------------------
(* User-defined rules *)

\* The definitions of the rule file whose load set the registry cl
LoadedDefs(cl) ==
    IF cl = None THEN {}
    ELSE UNION {f.defs : f \in {g \in RuleFiles :
                   /\ g.parses
                   /\ {d.name : d \in g.defs} = DOMAIN cl[1].languages}}

\* The definitions among defs that list the extension, compared lowercased
KeyedBy(defs, ext) ==
    {d \in defs :
        \E k \in 1..Len(d.def.extensions) :
           ToLowercase(d.def.extensions[k]) = ToLowercase(ext)}

\* A detect call made after the load answered a user-defined language that
\* keys the extension of its path, whenever one does, whatever the built-in
\* rules say of the path.
KeyedResolves ==
    (dpath # None /\ dcl # None /\ ExtStr(dpath[1]) # None) =>
        LET keyed == KeyedBy(LoadedDefs(dcl), ExtStr(dpath[1])[1])
        IN  keyed # {} =>
               /\ detected # None
               /\ \E d \in keyed : detected[1] = CustomLanguage(d.name, d.def)
               /\ detected[1].name \notin DOMAIN LANGUAGES

\* A detect call made after the load on a path whose extension is not
\* user-keyed answered as detect_language does with no load done.
OthersAsBefore ==
    (dpath # None /\ dcl # None
        /\ (ExtStr(dpath[1]) = None
              \/ KeyedBy(LoadedDefs(dcl), ExtStr(dpath[1])[1]) = {})) =>
        detected = detect_language(None, dpath[1])

\* C11: after user-defined rules are loaded, a path whose extension
\* (compared lowercased) is keyed by a user-defined language resolves to a
\* user-defined language that keys it, before the filename map, the C#
\* Generated suffix rule and the extension map; a path whose extension is
\* not user-keyed resolves exactly as before the load.
C11_UserRulesFirst == KeyedResolves /\ OthersAsBefore

\* Foo.g.cs resolved to the user-defined language that keys cs, not to
\* "C# Generated"
C11_Witness ==
    /\ dcl # None
    /\ dpath = Some(<<"F", "o", "o", ".", "g", ".", "c", "s">>)
    /\ detected # None
    /\ detected[1].name = "Beta"
    /\ detect_builtin(dpath[1]) = Some(LANGUAGES["C# Generated"])

\* C15: after one successful load every later load returns an error and
\* leaves the user-defined languages and extension mappings as the first
\* load set them: the registry, once set, never changes, and no load
\* returns Ok after an earlier one did.
C15_LoadOnce ==
    [][/\ custom_languages # None => custom_languages' = custom_languages
       /\ \A i, j \in 1..Len(load_ret') :
             (i < j /\ load_ret'[i] = "Ok") =>
                 load_ret'[j] \in {"Failed to read", "Failed to parse",
                                   "Custom languages already loaded"}
       /\ (custom_languages' # None) <=>
             (\E i \in 1..Len(load_ret') : load_ret'[i] = "Ok")]_vars

\* A valid file was loaded, then another valid file was refused
C15_Witness ==
    /\ Len(load_ret) = 2
    /\ load_ret[1] = "Ok"
    /\ load_ret[2] = "Custom languages already loaded"
    /\ DOMAIN custom_languages[1].languages = {"MyLang"}


----------------------------------------------------------------------------
(* The state between lines *)

\* classify_line has returned for some line of the file
ScannedSome ==
    \E j \in 1..Len(hist) : hist[j].kind \in {"Code", "Comment", "Mixed", "Blank"}
                            /\ has_comments(lang)

\* C18: the state handed from one line to the next is never String: a line
\* that ends inside a string hands on Code; every line starts in Code or
\* in BlockComment, in the state the line before it ended with, and a
\* BlockComment state is handed on with its depth unchanged.
C18_NoStringAcrossLines ==
    /\ state.tag \in {"Code", "BlockComment"}
    /\ pc = "scan" => (/\ ScanStart(state).state = state
                       /\ scn.pos = 1 => scn.state = state)
    /\ (pc \in {"lines", "done"} /\ ScannedSome) =>
          state = IF scn.state.tag = "String" THEN Code ELSE scn.state
    /\ \A j \in 1..Len(hist) :
          /\ hist[j].before.tag \in {"Code", "BlockComment"}
          /\ hist[j].after.tag \in {"Code", "BlockComment"}
          /\ hist[j].before = IF j = 1 THEN Code ELSE hist[j - 1].after
    /\ hist # <<>> => state = hist[Len(hist)].after

\* A line ended inside a string, Code was handed on and a line follows
C18_Witness ==
    /\ pc = "lines"
    /\ reader # <<>>
    /\ scn.state.tag = "String"
    /\ state = Code
    /\ hist # <<>>

\* The line about to be read is empty once trimmed
EmptyLineNext ==
    /\ pc = "lines"
    /\ reader # <<>>
    /\ Head(reader).ok
    /\ Trim(Head(reader).val) = <<>>

\* C19: for a line whose trimmed text is empty classify_line is not
\* entered and the state is left as it is; 1 is added to blanks when the
\* state is Code and to comments when it is BlockComment, and to no other
\* counter.
C19_EmptyLine ==
    [][EmptyLineNext =>
          /\ pc' = "lines"
          /\ scn' = scn
          /\ state' = state
          /\ hist' = Append(hist, Did("Empty", (IF state.tag = "Code"
                                               THEN "blanks" ELSE "comments"),
                                    state, state))
          /\ stats' = IF state.tag = "Code"
                      THEN [stats EXCEPT !.blanks = @ + 1]
                      ELSE [stats EXCEPT !.comments = @ + 1]
          /\ state.tag \in {"Code", "BlockComment"}
      ]_vars

\* An empty line inside a block comment was tallied as a comment and left
\* the state BlockComment
C19_Witness ==
    /\ pc = "lines"
    /\ hist # <<>>
    /\ hist[Len(hist)].kind = "Empty"
    /\ hist[Len(hist)].before.tag = "BlockComment"
    /\ hist[Len(hist)].counter = "comments"
    /\ state = hist[Len(hist)].before
    /\ stats.blanks = 0

\* Every BlockComment state of the run has depth >= 1
DepthPositive ==
    /\ state.tag = "BlockComment" => state.depth >= 1
    /\ scn.state.tag = "BlockComment" => scn.state.depth >= 1
    /\ \A j \in 1..Len(hist) :
          /\ hist[j].before.tag = "BlockComment" => hist[j].before.depth >= 1
          /\ hist[j].after.tag = "BlockComment" => hist[j].after.depth >= 1

\* An iteration of the character loop that consumes a block-close token
CloseStep ==
    /\ pc = "scan"
    /\ ~ScanOver(line, scn)
    /\ scn.state.tag = "BlockComment"
    /\ lang.block_comment_end # None
    /\ StartsWith(line, scn.pos, lang.block_comment_end[1])

\* C20: every BlockComment state has depth >= 1: a block-close at depth 1
\* yields Code and never BlockComment{0}, a block-close at a greater depth
\* yields that depth less 1, and depth - 1 is never computed at depth 0.
\* (The depths of the runs are far below the width of depth, u32.)
C20_DepthAtLeastOne ==
    [][/\ DepthPositive'
       /\ CloseStep =>
             /\ scn.state.depth >= 1
             /\ scn'.state = IF scn.state.depth = 1 THEN Code
                             ELSE BlockComment(scn.state.depth - 1)
             /\ scn'.state # BlockComment(0)
      ]_vars

\* A nested comment was closed at depth 2 and then at depth 1, to Code
C20_Witness ==
    /\ pc = "scan"
    /\ lang.nested_comments
    /\ scn.tok = "close"
    /\ scn.state = Code
    /\ opens = 2
    /\ closes = 2

----------------------------------------------------------------------------
(* walker.rs: discovery and filtering *)

\* The characters of a registry name (Language.name as a str)
NameText ==
    ("Rust" :> <<"R", "u", "s", "t">>) @@
    ("C#" :> <<"C", "#">>) @@
    ("TypeScript" :> <<"T", "y", "p", "e", "S", "c", "r", "i", "p", "t">>) @@
    ("JavaScript" :> <<"J", "a", "v", "a", "S", "c", "r", "i", "p", "t">>) @@
    ("TSX" :> <<"T", "S", "X">>) @@
    ("Bash" :> <<"B", "a", "s", "h">>) @@
    ("TOML" :> <<"T", "O", "M", "L">>) @@
    ("Makefile" :> <<"M", "a", "k", "e", "f", "i", "l", "e">>) @@
    ("CMake" :> <<"C", "M", "a", "k", "e">>) @@
    ("C# Generated" :> <<"C", "#", " ", "G", "e", "n", "e", "r", "a", "t", "e", "d">>) @@
    ("Text" :> <<"T", "e", "x", "t">>)

\* str::eq_ignore_ascii_case
eq_ignore_ascii_case(a, b) == ToLowercase(a) = ToLowercase(b)

\* get_language_ignore_case: the registry entry whose name is the given
\* name up to letter case
get_language_ignore_case(name) ==
    LET hits == {n \in DOMAIN LANGUAGES : eq_ignore_ascii_case(NameText[n], name)}
    IN  IF hits = {} THEN None ELSE Some(LANGUAGES[CHOOSE n \in hits : TRUE])

\* Regex::is_match, a regex being the set of texts it matches
is_match(regex, text) == text \in regex

\* OsStr::to_string_lossy
to_string_lossy(os) == [i \in 1..Len(os) |-> IF os[i] = BAD THEN "U+FFFD" ELSE os[i]]

\* The named components of a path
Components(path) ==
    SelectSeq(SplitOn(path, "/"), LAMBDA c : c # <<>> /\ c # <<".">>)

RECURSIVE JoinPath(_)
JoinPath(comps) ==
    IF comps = <<>> THEN <<>>
    ELSE IF Len(comps) = 1 THEN comps[1]
    ELSE comps[1] \o <<"/">> \o JoinPath(Tail(comps))

\* Path::parent of a relative path
Parent(path) ==
    LET comps == Components(path)
    IN  IF comps = <<>> THEN None
        ELSE Some(JoinPath(SubSeq(comps, 1, Len(comps) - 1)))

\* A file on fsys: its path, its length in bytes, and its text when
\* read_to_string succeeds
DiskFile(path, len, content) == [path |-> path, len |-> len, content |-> content]

\* path.metadata()
Metadata(fsys, path) ==
    IF \E f \in fsys : f.path = path
    THEN Ok(CHOOSE f \in fsys : f.path = path)
    ELSE Err

\* std::fs::read_to_string(path)
read_to_string(fsys, path) ==
    LET meta == Metadata(fsys, path)
    IN  IF meta.ok /\ meta.val.content # None
        THEN Ok(meta.val.content[1])
        ELSE Err

\* WalkerConfig::default().exclude_dirs
DefaultExcludeDirs ==
    {<<".", "g", "i", "t">>,
     <<".", "s", "v", "n">>,
     <<".", "h", "g">>,
     <<"n", "o", "d", "e", "_", "m", "o", "d", "u", "l", "e", "s">>,
     <<"t", "a", "r", "g", "e", "t">>,
     <<"v", "e", "n", "d", "o", "r">>,
     <<"d", "i", "s", "t">>,
     <<"b", "u", "i", "l", "d">>,
     <<"_", "_", "p", "y", "c", "a", "c", "h", "e", "_", "_">>,
     <<".", "t", "o", "x">>,
     <<".", "e", "g", "g", "s">>,
     <<"v", "e", "n", "v">>,
     <<".", "v", "e", "n", "v">>,
     <<"e", "n", "v">>,
     <<".", "e", "n", "v">>}

TheRoot == <<"a">>

\* WalkerConfig::default(), the walk rooted at TheRoot
DefaultConfig ==
    [paths |-> <<TheRoot>>, list_file |-> None,
     exclude_dirs |-> DefaultExcludeDirs,
     exclude_exts |-> {}, exclude_langs |-> {},
     include_exts |-> {}, include_langs |-> {},
     force_lang |-> <<>>,
     match_dir |-> None, not_match_dir |-> {},
     match_file |-> None, not_match_file |-> {},
     include_content |-> None, exclude_content |-> None,
     vcs |-> None, hidden |-> FALSE, fullpath |-> FALSE,
     max_depth |-> None, max_file_size |-> None]

\* The maximum taken as it is configured
max_bytes_as_given(config) == config.max_file_size

\* let max_bytes = config.max_file_size.map(|mb| mb * 1024 * 1024)
max_bytes_of(config) ==
    IF config.max_file_size = None THEN None
    ELSE Some(config.max_file_size[1] * 1024 * 1024)

\* The text not_match_dir is matched against, the parent's name whatever
\* the fullpath flag
dir_name_of_parent(config, path) ==
    IF Parent(path) = None \/ FileName(Parent(path)[1]) = None THEN <<>>
    ELSE to_string_lossy(FileName(Parent(path)[1])[1])

\* The text not_match_dir is matched against: the parent path with the
\* fullpath flag, the parent's name without it
dir_name_of(config, path) ==
    IF config.fullpath
    THEN IF Parent(path) = None THEN <<>> ELSE to_string_lossy(Parent(path)[1])
    ELSE IF Parent(path) = None \/ FileName(Parent(path)[1]) = None THEN <<>>
    ELSE to_string_lossy(FileName(Parent(path)[1])[1])

\* The size, extension, name, directory and content filters of filter_files
PassesFilters(config, fsys, path) ==
    LET max_bytes == max_bytes_of(config)
        meta == Metadata(fsys, path)
        ext == ExtStr(path)
        name == IF config.fullpath THEN to_string_lossy(path)
                ELSE IF FileName(path) = None THEN <<>>
                ELSE to_string_lossy(FileName(path)[1])
        parent == Parent(path)
        dir == IF parent = None THEN <<>> ELSE to_string_lossy(parent[1])
        dir_name == dir_name_of(config, path)
        content == read_to_string(fsys, path)
    IN  /\ ~(max_bytes # None /\ meta.ok /\ meta.val.len > max_bytes[1])
        /\ IF ext # None
           THEN /\ (config.include_exts # {} =>
                       \E e \in config.include_exts : eq_ignore_ascii_case(e, ext[1]))
                /\ ~\E e \in config.exclude_exts : eq_ignore_ascii_case(e, ext[1])
           ELSE config.include_exts = {}
        /\ (config.match_file # None => is_match(config.match_file[1], name))
        /\ ~\E regex \in config.not_match_file : is_match(regex, name)
        /\ (config.match_dir # None => is_match(config.match_dir[1], dir))
        /\ ~\E regex \in config.not_match_dir : is_match(regex, dir_name)
        /\ (config.include_content # None \/ config.exclude_content # None =>
              /\ content.ok
              /\ (config.include_content # None =>
                     is_match(config.include_content[1], content.val))
              /\ (config.exclude_content # None =>
                     ~is_match(config.exclude_content[1], content.val)))

\* The resolution with detect_language asked before the forced languages
ResolveDetectFirst(config, cl, path) ==
    LET ext == ExtStr(path)
        found == detect_language(cl, path)
    IN  IF found # None THEN found
        ELSE IF ext # None /\ ToLowercase(ext[1]) \in DOMAIN config.force_lang
        THEN get_language_ignore_case(config.force_lang[ToLowercase(ext[1])])
        ELSE None

\* The language of a candidate of filter_files: the forced language of its
\* extension when there is one, what detect_language says otherwise
Resolve(config, cl, path) ==
    LET ext == ExtStr(path)
    IN  IF ext # None /\ ToLowercase(ext[1]) \in DOMAIN config.force_lang
        THEN get_language_ignore_case(config.force_lang[ToLowercase(ext[1])])
        ELSE detect_language(cl, path)

\* The language filters comparing the names letter for letter
LangPassesExact(config, language) ==
    /\ (config.include_langs # {} => NameText[language.name] \in config.include_langs)
    /\ NameText[language.name] \notin config.exclude_langs

\* The include-language and exclude-language filters of filter_files
LangPasses(config, language) ==
    LET include_langs_lower == {ToLowercase(l) : l \in config.include_langs}
        exclude_langs_lower == {ToLowercase(l) : l \in config.exclude_langs}
    IN  /\ (include_langs_lower # {} =>
               \E l \in include_langs_lower :
                  eq_ignore_ascii_case(l, NameText[language.name]))
        /\ ~\E l \in exclude_langs_lower :
               eq_ignore_ascii_case(l, NameText[language.name])

FileEntry(path, language) == [path |-> path, language |-> language]

\* The end of the filter_map closure: the `?` on the resolved language,
\* the language filters, Some(FileEntry { path, language })
Entry(config, path, language) ==
    IF language # None /\ LangPasses(config, language[1])
    THEN <<FileEntry(path, language[1])>>
    ELSE <<>>

RECURSIVE FilterMap(_, _, _, _)
FilterMap(files, config, fsys, cl) ==
    IF files = <<>> THEN <<>>
    ELSE (IF PassesFilters(config, fsys, Head(files))
          THEN Entry(config, Head(files), Resolve(config, cl, Head(files)))
          ELSE <<>>)
         \o FilterMap(Tail(files), config, fsys, cl)

filter_files(files, config, fsys, cl) == FilterMap(files, config, fsys, cl)

\* Whether the walk of the ignore crate from a root yields the file: the
\* components below the root, the file name last
BelowRoot(root, path) ==
    LET rc == Components(root)
        pc_ == Components(path)
    IN  IF Len(pc_) > Len(rc) /\ SubSeq(pc_, 1, Len(rc)) = rc
        THEN Some(SubSeq(pc_, Len(rc) + 1, Len(pc_)))
        ELSE None

IsHidden(name) == Len(name) > 0 /\ name[1] = "."

Yields(config, root, path) ==
    LET rel == BelowRoot(root, path)
    IN  /\ rel # None
        /\ (config.max_depth # None => Len(rel[1]) <= config.max_depth[1])
        /\ \A k \in 1..(Len(rel[1]) - 1) : rel[1][k] \notin config.exclude_dirs
        /\ (~config.hidden => \A k \in 1..Len(rel[1]) : ~IsHidden(rel[1][k]))

\* The walk that descends into every directory below the roots
walk_filesystem_all_dirs(config, fsys, order, cl) ==
    filter_files(SelectSeq(order, LAMBDA path :
                    \E i \in 1..Len(config.paths) : BelowRoot(config.paths[i], path) # None),
                 config, fsys, cl)

\* walk_filesystem, the directory entries coming in the order `order`
walk_filesystem(config, fsys, order, cl) ==
    filter_files(SelectSeq(order, LAMBDA path :
                    \E i \in 1..Len(config.paths) : Yields(config, config.paths[i], path)),
                 config, fsys, cl)

\* Command::new("git").args(..).output(): the binary missing, a non-zero
\* exit, or the listing of the working tree
GitMissing == [spawned |-> FALSE, success |-> FALSE, stdout |-> <<>>]
GitFailed == [spawned |-> TRUE, success |-> FALSE, stdout |-> <<>>]
GitListed(lines) == [spawned |-> TRUE, success |-> TRUE, stdout |-> lines]

\* walk_git_files that takes whatever git printed
walk_git_files_no_fallback(config, fsys, order, git, cl) ==
    filter_files(git.stdout, config, fsys, cl)

\* walk_git_files: the listing on success, walk_filesystem otherwise
walk_git_files(config, fsys, order, git, cl) ==
    IF git.spawned /\ git.success
    THEN filter_files(git.stdout, config, fsys, cl)
    ELSE walk_filesystem(config, fsys, order, cl)

\* A list file: whether read_to_string succeeds, and its lines
ListFile(ok, lines) == [readable |-> ok, lines |-> lines]

walk_list_file(list_file, config, fsys, cl) ==
    IF ~list_file.readable THEN <<>>
    ELSE filter_files(SelectSeq(list_file.lines, LAMBDA l : Trim(l) # <<>>),
                      config, fsys, cl)

\* Path::new(".git").exists()
DotGitExists(fsys) ==
    \E f \in fsys : Len(Components(f.path)) > 1 /\ Components(f.path)[1] = <<".", "g", "i", "t">>

\* Whether walk_files runs git
RunsGit(config, fsys) ==
    /\ config.list_file = None
    /\ \/ config.vcs = Some("Git")
       \/ config.vcs = Some("Auto") /\ DotGitExists(fsys)

walk_files(config, fsys, order, git, cl) ==
    IF config.list_file # None
    THEN walk_list_file(config.list_file[1], config, fsys, cl)
    ELSE IF \/ config.vcs = Some("Git")
            \/ config.vcs = Some("Auto") /\ DotGitExists(fsys)
    THEN walk_git_files(config, fsys, order, git, cl)
    ELSE walk_filesystem(config, fsys, order, cl)

\* The files the walks of the model find on disk
MiB == 1024 * 1024
\* A file of exactly one mebibyte and one of a byte more
MainRs == DiskFile(<<"a", "/", "m", "a", "i", "n", ".", "r", "s">>, MiB, Some(<<"f", "n">>))
LibTs == DiskFile(<<"a", "/", "n", "o", "d", "e", "_", "m", "o", "d", "u", "l", "e", "s", "/", "l", "i", "b", ".", "t", "s">>, 9, Some(<<"l", "e", "t">>))
DeepRs == DiskFile(<<"a", "/", "s", "r", "c", "/", "t", "a", "r", "g", "e", "t", "/", "x", ".", "r", "s">>, 5, Some(<<"/", "/">>))
VenvRs == DiskFile(<<"a", "/", ".", "v", "e", "n", "v", "/", "y", ".", "r", "s">>, 5, Some(<<"f", "n">>))
TestTsx == DiskFile(<<"a", "/", "t", "e", "s", "t", ".", "t", "s", "x">>, MiB + 1, Some(<<"l", "e", "t">>))
TestXyz == DiskFile(<<"a", "/", "t", "e", "s", "t", ".", "x", "y", "z">>, 3, Some(<<"x", "y", "z">>))
GitConfig == DiskFile(<<".", "g", "i", "t", "/", "c", "o", "n", "f", "i", "g">>, 4, Some(<<"[", "x", "]">>))

WalkFiles == {MainRs, LibTs, DeepRs, VenvRs, TestTsx, TestXyz, GitConfig}

MaxDiskFiles == 3

WalkDisks == {d \in SUBSET WalkFiles : Cardinality(d) <= MaxDiskFiles}

\* Args::to_walker_config with --no-ignore: the default excludes cleared
NoIgnore(config) == [config EXCEPT !.exclude_dirs = {}]

\* --force-lang LANG,EXT: the extension lowercased, the name as given
ForceLang(config, ext, name) ==
    [config EXCEPT !.force_lang = (ToLowercase(ext) :> name) @@ @]

TheListFile ==
    ListFile(TRUE, <<<<"a", "/", "m", "a", "i", "n", ".", "r", "s">>, <<" ">>, <<"a", "/", "n", "o", "d", "e", "_", "m", "o", "d", "u", "l", "e", "s", "/", "l", "i", "b", ".", "t", "s">>, <<"a", "/", "g", "o", "n", "e", ".", "r", "s">>>>)

\* Two patterns as the texts of the model they match: `^target$` and `^a/src`
NamedTarget == {<<"t", "a", "r", "g", "e", "t">>}
UnderSrc == {<<"a", "/", "s", "r", "c">>, <<"a", "/", "s", "r", "c", "/", "t", "a", "r", "g", "e", "t">>}

WalkConfigs ==
    {DefaultConfig,
     NoIgnore(DefaultConfig),
     [DefaultConfig EXCEPT !.hidden = TRUE],
     [NoIgnore(DefaultConfig) EXCEPT !.hidden = TRUE],
     [DefaultConfig EXCEPT !.max_depth = Some(1)],
     ForceLang(DefaultConfig, <<"t", "s", "x">>, <<"t", "y", "p", "e", "s", "c", "r", "i", "p", "t">>),
     ForceLang(DefaultConfig, <<"T", "S", "X">>, <<"T", "y", "p", "e", "S", "c", "r", "i", "p", "t">>),
     ForceLang(DefaultConfig, <<"x", "y", "z">>, <<"N", "o", "t", "A", "R", "e", "a", "l", "L", "a", "n", "g", "u", "a", "g", "e">>),
     ForceLang(DefaultConfig, <<"x", "y", "z">>, <<"R", "U", "S", "T">>),
     ForceLang(DefaultConfig, <<"r", "s">>, <<"N", "o", "t", "A", "R", "e", "a", "l", "L", "a", "n", "g", "u", "a", "g", "e">>),
     ForceLang(DefaultConfig, <<"r", "s">>, <<"t", "e", "x", "t">>),
     [DefaultConfig EXCEPT !.include_langs = {<<"r", "u", "s", "t">>}],
     [DefaultConfig EXCEPT !.include_langs = {<<"R", "U", "S", "T">>, <<"T", "s", "x">>}],
     [NoIgnore(DefaultConfig) EXCEPT !.exclude_langs = {<<"t", "y", "p", "e", "s", "c", "r", "i", "p", "t">>}],
     [DefaultConfig EXCEPT !.exclude_langs = {<<"R", "u", "s", "t">>}],
     [ForceLang(DefaultConfig, <<"t", "s", "x">>, <<"t", "y", "p", "e", "s", "c", "r", "i", "p", "t">>)
         EXCEPT !.exclude_langs = {<<"T", "Y", "P", "E", "S", "C", "R", "I", "P", "T">>}],
     [DefaultConfig EXCEPT !.include_exts = {<<"R", "S">>}],
     [NoIgnore(DefaultConfig) EXCEPT !.exclude_exts = {<<"t", "s">>}],
     [DefaultConfig EXCEPT !.vcs = Some("Git")],
     [DefaultConfig EXCEPT !.vcs = Some("Auto")],
     [NoIgnore(DefaultConfig) EXCEPT !.vcs = Some("Git")],
     [DefaultConfig EXCEPT !.list_file = Some(TheListFile)],
     [DefaultConfig EXCEPT !.list_file = Some(ListFile(FALSE, <<>>)), !.vcs = Some("Git")],
     [DefaultConfig EXCEPT !.max_file_size = Some(1)],
     [DefaultConfig EXCEPT !.list_file = Some(TheListFile), !.max_file_size = Some(0)],
     [NoIgnore(DefaultConfig) EXCEPT !.not_match_dir = {NamedTarget}],
     [NoIgnore(DefaultConfig) EXCEPT !.not_match_dir = {NamedTarget}, !.fullpath = TRUE],
     [NoIgnore(DefaultConfig) EXCEPT !.not_match_dir = {UnderSrc}],
     [NoIgnore(DefaultConfig) EXCEPT !.not_match_dir = {UnderSrc}, !.fullpath = TRUE]}

\* The orders in which the entries of the disk can be listed
ListingOrders(fsys) ==
    LET paths == {f.path : f \in fsys}
    IN  {o \in [1..Cardinality(paths) -> paths] :
            \A i, j \in 1..Cardinality(paths) : i # j => o[i] # o[j]}

\* What running git can give: git ls-files lists the working tree, not
\* the repository directory
GitOutcomes(order) ==
    {GitMissing, GitFailed,
     GitListed(SelectSeq(order, LAMBDA path : Components(path)[1] # <<".", "g", "i", "t">>))}

\* walk_files(&config)
Walk ==
    /\ wpc = "call"
    /\ \E order \in ListingOrders(wdisk) :
          \E git \in IF RunsGit(wcfg, wdisk) THEN GitOutcomes(order) ELSE {GitMissing} :
             /\ wmode' = [order |-> order,
                          git |-> IF RunsGit(wcfg, wdisk) THEN Some(git) ELSE None]
             /\ wout' = walk_files(wcfg, wdisk, order, git, custom_languages)
    /\ wpc' = "done"
    /\ UNCHANGED <<wcfg, wdisk, countVars, scanVars, pipeVars, detVars>>

InitWalk ==
    /\ CountIdle
    /\ ScanIdle
    /\ PipeIdle
    /\ DetectIdle
    /\ wcfg \in WalkConfigs
    /\ wdisk \in WalkDisks
    /\ wpc = "call"
    /\ wmode = "none"
    /\ wout = <<>>

NextWalk == Walk

SpecWalk == InitWalk /\ [][NextWalk]_vars

----------------------------------------------------------------------------
(* Language names in the walker's options *)

WalkDone == wpc = "done"

\* What the git run of the walk gave, when walk_files ran git
WalkGit == IF wmode.git = None THEN GitMissing ELSE wmode.git[1]

\* Whether the walk took its candidates from the filesystem walk
UsedFilesystem ==
    /\ wcfg.list_file = None
    /\ wmode.git # None => ~(WalkGit.spawned /\ WalkGit.success)

\* The name forced on the extension of the path, if any
ForcedName(config, path) ==
    LET ext == ExtStr(path)
    IN  IF ext # None /\ ToLowercase(ext[1]) \in DOMAIN config.force_lang
        THEN Some(config.force_lang[ToLowercase(ext[1])])
        ELSE None

SameLetters(a, b) == ToLowercase(a) = ToLowercase(b)

\* The same walk with the include-language and exclude-language options unset
WalkAnyLanguage ==
    walk_files([wcfg EXCEPT !.include_langs = {}, !.exclude_langs = {}],
               wdisk, wmode.order, WalkGit, custom_languages)

\* C12: a name of the forced-language map and of the include-language and
\* exclude-language options matches a registry name whatever its letter
\* case; every entry returned carries the registry's own record, so the
\* name in its canonical casing; the include-language option keeps exactly
\* the entries whose language it names and the exclude-language option
\* drops exactly the entries whose language it names.
C12_NamesIgnoreCase ==
    WalkDone =>
       /\ \A i \in 1..Len(wout) :
             /\ wout[i].language.name \in DOMAIN LANGUAGES
             /\ wout[i].language = LANGUAGES[wout[i].language.name]
             /\ ForcedName(wcfg, wout[i].path) # None =>
                   SameLetters(ForcedName(wcfg, wout[i].path)[1],
                               NameText[wout[i].language.name])
       /\ wout = SelectSeq(WalkAnyLanguage, LAMBDA e :
                    /\ (wcfg.include_langs # {} =>
                           \E l \in wcfg.include_langs :
                              SameLetters(l, NameText[e.language.name]))
                    /\ \A l \in wcfg.exclude_langs :
                          ~SameLetters(l, NameText[e.language.name]))

\* A .tsx file forced to `typescript` is returned as TypeScript
C12_Witness ==
    /\ WalkDone
    /\ ForcedName(wcfg, <<"a", "/", "t", "e", "s", "t", ".", "t", "s", "x">>) = Some(<<"t", "y", "p", "e", "s", "c", "r", "i", "p", "t">>)
    /\ \E i \in 1..Len(wout) :
          /\ wout[i].path = <<"a", "/", "t", "e", "s", "t", ".", "t", "s", "x">>
          /\ wout[i].language.name = "TypeScript"

\* C13: an entry whose extension has a forced language carries that
\* language whatever detect_language says of the path, and a path whose
\* forced name is no registry name is not returned.
C13_ForcedLanguage ==
    WalkDone =>
       /\ \A i \in 1..Len(wout) :
             ForcedName(wcfg, wout[i].path) # None =>
                SameLetters(ForcedName(wcfg, wout[i].path)[1],
                            NameText[wout[i].language.name])
       /\ \A f \in wdisk :
             (/\ ForcedName(wcfg, f.path) # None
              /\ \A n \in DOMAIN LANGUAGES :
                    ~SameLetters(ForcedName(wcfg, f.path)[1], NameText[n]))
             => \A i \in 1..Len(wout) : wout[i].path # f.path

\* A .rs file forced to `text` is returned as Text though detect_language
\* says Rust
C13_Witness ==
    /\ WalkDone
    /\ ForcedName(wcfg, <<"a", "/", "m", "a", "i", "n", ".", "r", "s">>) = Some(<<"t", "e", "x", "t">>)
    /\ detect_language(custom_languages, <<"a", "/", "m", "a", "i", "n", ".", "r", "s">>) = Some(Rust)
    /\ \E i \in 1..Len(wout) :
          /\ wout[i].path = <<"a", "/", "m", "a", "i", "n", ".", "r", "s">>
          /\ wout[i].language.name = "Text"

----------------------------------------------------------------------------
(* Excluded directories and the git listing *)

\* The directories of the path below the root of the walk
DirsBelowRoot(path) ==
    LET rel == BelowRoot(TheRoot, path)
    IN  IF rel = None THEN {}
        ELSE {rel[1][k] : k \in 1..(Len(rel[1]) - 1)}

WalkPaths == {wout[i].path : i \in 1..Len(wout)}

\* Whether filter_files accepts the path
Accepted(config, fsys, cl, path) ==
    /\ PassesFilters(config, fsys, path)
    /\ Resolve(config, cl, path) # None
    /\ LangPasses(config, Resolve(config, cl, path)[1])

\* Whether the hidden-file and depth options let the walk reach the path
Reached(config, path) ==
    LET rel == BelowRoot(TheRoot, path)
    IN  /\ rel # None
        /\ (config.max_depth # None => Len(rel[1]) <= config.max_depth[1])
        /\ (~config.hidden => \A k \in 1..Len(rel[1]) : ~IsHidden(rel[1][k]))

\* C16: a filesystem walk under the default exclude list returns no file
\* below a directory of that list, at any depth below the root; with the
\* list cleared a file below such a directory is returned exactly when a
\* file elsewhere would be: when the walk reaches it and filter_files
\* accepts it.
C16_DefaultExcludes ==
    (WalkDone /\ UsedFilesystem) =>
       /\ wcfg.exclude_dirs = DefaultExcludeDirs =>
             \A p \in WalkPaths : DirsBelowRoot(p) \cap DefaultExcludeDirs = {}
       /\ wcfg.exclude_dirs = {} =>
             \A f \in wdisk :
                f.path \in WalkPaths <=>
                   /\ Reached(wcfg, f.path)
                   /\ Accepted(wcfg, wdisk, custom_languages, f.path)

\* The default walk over node_modules, a nested target and a source file
\* returns the source file alone
C16_Witness ==
    /\ WalkDone
    /\ wcfg = DefaultConfig
    /\ wdisk = {MainRs, LibTs, DeepRs}
    /\ WalkPaths = {MainRs.path}

\* C17: when walk_files runs git and git is missing or exits non-zero, the
\* result is that of the filesystem walk over the roots, filtered; when
\* git succeeds the result is the filtered listing, and only then does a
\* path come from the listing.
C17_GitFallback ==
    (WalkDone /\ wmode.git # None) =>
       IF WalkGit.spawned /\ WalkGit.success
       THEN /\ wout = filter_files(WalkGit.stdout, wcfg, wdisk, custom_languages)
            /\ WalkPaths \subseteq Range(WalkGit.stdout)
       ELSE /\ wout = walk_filesystem(wcfg, wdisk, wmode.order, custom_languages)
            /\ \A p \in WalkPaths :
                  /\ Reached(wcfg, p)
                  /\ DirsBelowRoot(p) \cap wcfg.exclude_dirs = {}
            /\ \A f \in wdisk :
                  (/\ Reached(wcfg, f.path)
                   /\ DirsBelowRoot(f.path) \cap wcfg.exclude_dirs = {}
                   /\ Accepted(wcfg, wdisk, custom_languages, f.path))
                  => f.path \in WalkPaths

\* git exits non-zero and the walk still returns the source file, without
\* the file under node_modules that a listing would have named
C17_Witness ==
    /\ WalkDone
    /\ wcfg.vcs = Some("Git")
    /\ wmode.git = Some(GitFailed)
    /\ LibTs \in wdisk
    /\ WalkPaths = {MainRs.path}

----------------------------------------------------------------------------
(* The entry points on an empty walk *)

Returned == aresult # None

\* C14: when the walk hands over no file, analyze_with_config (and analyze,
\* which calls it) and analyze_fast_with_config return
\* Err(Error::NoSourceFiles) and never an Ok analysis; top_language and
\* top_language_fast return Err(Error::NoSourceFiles) whenever the entry
\* point failed so or its analysis has no language.
C14_NoSourceFiles ==
    /\ (entries = <<>> /\ ppc # "start") =>
          /\ Returned
          /\ aresult[1] = ErrOf(NoSourceFiles)
    /\ Returned =>
          /\ atop # None
          /\ (~aresult[1].ok \/ aresult[1].val.languages = <<>>) =>
                atop[1] = ErrOf(NoSourceFiles)
          /\ (aresult[1].ok /\ aresult[1].val.languages # <<>>) =>
                atop[1] = Ok(aresult[1].val.languages[1])

\* The fast analysis of an empty walk has returned NoSourceFiles
C14_Witness ==
    /\ entries = <<>>
    /\ ppc = "fast"
    /\ aresult = Some(ErrOf(NoSourceFiles))
    /\ atop = Some(ErrOf(NoSourceFiles))

----------------------------------------------------------------------------
(* The order of the tests in State::Code *)

\* The character loop is at a character that is not white space, in Code
AtCodeChar ==
    /\ pc = "scan"
    /\ ~ScanOver(line, scn)
    /\ scn.state.tag = "Code"
    /\ ~IsWhitespace(line[scn.pos])

BlockOpenHere ==
    /\ lang.block_comment_start # None
    /\ StartsWith(line, scn.pos, lang.block_comment_start[1])

LineCommentHere ==
    \E k \in 1..Len(lang.line_comments) :
       StartsWith(line, scn.pos, lang.line_comments[k])

\* C21: in Code, where the remaining text starts with the block-open token
\* the scanner enters BlockComment{1} and goes on past the token, also when
\* a line-comment token starts there too; where only a line-comment token
\* starts, the scan of the line ends there and the line leaves in Code.
C21_BlockOpenFirst ==
    [][/\ AtCodeChar =>
             /\ BlockOpenHere =>
                   /\ scn'.state = BlockComment(1)
                   /\ scn'.has_comment
                   /\ ~scn'.ret
                   /\ scn'.pos = scn.pos + Len(lang.block_comment_start[1])
             /\ (~BlockOpenHere /\ LineCommentHere) =>
                   /\ scn'.ret
                   /\ scn'.state = Code
                   /\ scn'.has_comment
                   /\ scn'.has_code = scn.has_code
       /\ (pc = "scan" /\ scn.ret) => state' = Code]_vars

\* A Lua line has entered a block comment at `--[[` and scans on
C21_Witness ==
    /\ lang = Lua
    /\ pc = "scan"
    /\ scn.state = BlockComment(1)
    /\ scn.tok = "open"
    /\ StartsWith(line, scn.pos - 4, <<"-", "-">>)
    /\ ~scn.ret

----------------------------------------------------------------------------
(* What opens a string *)

\* The character at the scanner is a one-character entry of
\* lang.string_delimiters
DelimiterHere ==
    \E k \in 1..Len(lang.string_delimiters) :
       lang.string_delimiters[k] = <<line[scn.pos]>>

\* C22: in Code, at a character where no comment token starts, a character
\* that is a one-character entry of the ruleset's string_delimiters sets
\* has_code and enters String with that character as delimiter, whatever
\* the character; a character that is no entry of the list leaves the
\* scanner in Code.
C22_DelimiterOpensString ==
    [][(AtCodeChar /\ ~BlockOpenHere /\ ~LineCommentHere) =>
          IF DelimiterHere
          THEN scn'.has_code /\ scn'.state = String(line[scn.pos])
          ELSE scn'.has_code /\ scn'.state = Code]_vars

\* The part of C22 about the characters that are not in the list
C22_OnlyListedOpen ==
    [][(AtCodeChar /\ ~BlockOpenHere /\ ~LineCommentHere /\ ~DelimiterHere) =>
          scn'.has_code /\ scn'.state = Code]_vars

----------------------------------------------------------------------------
(* Lines that begin inside a block comment *)

\* The line tallied last went through classify_line and began in BlockComment
LastBeganInComment ==
    /\ pc \in {"lines", "done"}
    /\ hist # <<>>
    /\ hist[Len(hist)].kind \in {"Code", "Comment", "Mixed", "Blank"}
    /\ hist[Len(hist)].before.tag = "BlockComment"

\* C30 as stated: a non-empty line that begins in BlockComment is Comment
\* or Mixed, and Mixed exactly when some block-close token of the line is
\* followed by a character that is not white space and starts neither a
\* block comment nor a line comment.
C30_MixedAfterAnyClose ==
    LastBeganInComment =>
       /\ hist[Len(hist)].kind \in {"Comment", "Mixed"}
       /\ hist[Len(hist)].kind = "Mixed" <=> trail.any

\* C30 amended: a non-empty line that begins in BlockComment is Comment or
\* Mixed, never Code or Blank, and Mixed (so tallied as code) exactly when a
\* block-close token of the line that brings the scanner back to Code is
\* followed by a character that is not white space and starts neither a
\* block comment nor a line comment; a close that leaves the scanner in a
\* nested comment does not make the line Mixed.
C30_MixedAfterLastClose ==
    LastBeganInComment =>
       /\ hist[Len(hist)].kind \in {"Comment", "Mixed"}
       /\ hist[Len(hist)].kind = "Mixed" <=> trail.in_code
       /\ hist[Len(hist)].kind = "Mixed" => hist[Len(hist)].counter = "code"
       /\ hist[Len(hist)].kind = "Comment" => hist[Len(hist)].counter = "comments"

\* `*/ x` read at depth 2 is a Comment line though x follows a close
C30_Witness ==
    /\ LastBeganInComment
    /\ hist[Len(hist)].before = BlockComment(2)
    /\ hist[Len(hist)].kind = "Comment"
    /\ trail.any
    /\ ~trail.in_code

----------------------------------------------------------------------------
(* The size filter and the directory patterns *)

\* The same walk with no maximum size
WalkAnySize ==
    walk_files([wcfg EXCEPT !.max_file_size = None],
               wdisk, wmode.order, WalkGit, custom_languages)

\* The length of the file at the path is known and exceeds n
LongerThan(path, n) ==
    /\ Metadata(wdisk, path).ok
    /\ Metadata(wdisk, path).val.len > n

\* C23 as stated: a candidate is dropped exactly when a maximum is
\* configured and the length of the file in bytes exceeds that number.
C23_MaxInBytes ==
    WalkDone =>
       wout = SelectSeq(WalkAnySize, LAMBDA e :
                 ~(wcfg.max_file_size # None
                   /\ LongerThan(e.path, wcfg.max_file_size[1])))

\* C23 amended: the configured maximum is a number of mebibytes; a
\* candidate is dropped exactly when a maximum is configured, the metadata
\* of the file can be read and its length in bytes exceeds the maximum
\* times 1024 * 1024. (The products of the model are far below 2^64.)
C23_MaxInMebibytes ==
    WalkDone =>
       wout = SelectSeq(WalkAnySize, LAMBDA e :
                 ~(wcfg.max_file_size # None
                   /\ LongerThan(e.path, wcfg.max_file_size[1] * 1024 * 1024)))

\* Under a maximum of 1 the file of one mebibyte is returned and the file
\* of one byte more is not
C23_Witness ==
    /\ WalkDone
    /\ wcfg.max_file_size = Some(1)
    /\ MainRs \in wdisk
    /\ TestTsx \in wdisk
    /\ MainRs.path \in WalkPaths
    /\ TestTsx.path \notin WalkPaths

\* The same walk with no not_match_dir pattern
WalkAnyDir ==
    walk_files([wcfg EXCEPT !.not_match_dir = {}],
               wdisk, wmode.order, WalkGit, custom_languages)

ParentPath(path) ==
    IF Parent(path) = None THEN <<>> ELSE to_string_lossy(Parent(path)[1])

ParentName(path) ==
    IF Parent(path) = None \/ FileName(Parent(path)[1]) = None THEN <<>>
    ELSE to_string_lossy(FileName(Parent(path)[1])[1])

\* C28 as stated: a candidate is dropped when a not_match_dir pattern
\* matches the name of its parent directory or the path of its parent
\* directory, whatever the fullpath flag.
C28_NameOrPath ==
    WalkDone =>
       wout = SelectSeq(WalkAnyDir, LAMBDA e :
                 ~\E regex \in wcfg.not_match_dir :
                     \/ is_match(regex, ParentName(e.path))
                     \/ is_match(regex, ParentPath(e.path)))

\* C28 amended: a candidate is dropped exactly when a not_match_dir
\* pattern matches the one text the fullpath flag selects: the path of the
\* parent directory with the flag, the name of the parent directory
\* without it.
C28_NameOrPathByFlag ==
    WalkDone =>
       wout = SelectSeq(WalkAnyDir, LAMBDA e :
                 ~\E regex \in wcfg.not_match_dir :
                     is_match(regex, IF wcfg.fullpath THEN ParentPath(e.path)
                                     ELSE ParentName(e.path)))

\* With the fullpath flag a file under `target` is returned though a
\* pattern matches the name `target`
C28_Witness ==
    /\ WalkDone
    /\ wcfg.fullpath
    /\ wcfg.not_match_dir = {NamedTarget}
    /\ DeepRs.path \in WalkPaths

----------------------------------------------------------------------------
(* The invariants of a ruleset *)

\* With nested_comments both block comment tokens are present, and no
\* line comment token is empty
WellFormed(rules) ==
    /\ rules.nested_comments =>
          (rules.block_comment_start # None /\ rules.block_comment_end # None)
    /\ \A k \in 1..Len(rules.line_comments) : rules.line_comments[k] # <<>>

\* The rulesets the registry can hand out
Registered ==
    {LANGUAGES[n] : n \in DOMAIN LANGUAGES}
       \cup (IF custom_languages = None THEN {}
             ELSE {custom_languages[1].languages[n] :
                      n \in DOMAIN custom_languages[1].languages})

\* C24: every ruleset of the registry, built in or loaded, is well formed:
\* nested_comments comes with both block comment tokens and every line
\* comment token is non-empty.
C24_RulesetInvariants == \A rules \in Registered : WellFormed(rules)

\* The built-in rulesets are well formed
C24_BuiltinsWellFormed ==
    \A n \in DOMAIN LANGUAGES : WellFormed(LANGUAGES[n])

----------------------------------------------------------------------------
(* A load that fails *)

\* The results of the loads before the k-th are all failures to read or
\* to parse
OnlyFailuresBefore(k) ==
    \A j \in 1..(k - 1) : load_ret[j] \in {"Failed to read", "Failed to parse"}

\* C29: as long as every load so far failed to read or to parse its file,
\* the registry holds no user-defined rules and detect_language answers as
\* the built-in tables do; the first load that gets past reading and
\* parsing returns Ok, whatever number of failed loads came before it.
C29_FailedLoadLeavesNoTrace ==
    /\ OnlyFailuresBefore(Len(load_ret) + 1) =>
          /\ custom_languages = None
          /\ (dpath # None /\ dcl = custom_languages) =>
                detected = detect_builtin(dpath[1])
    /\ \A k \in 1..Len(load_ret) :
          (OnlyFailuresBefore(k)
             /\ load_ret[k] \notin {"Failed to read", "Failed to parse"})
          => load_ret[k] = "Ok"

\* A load failed, a later one succeeded and a path resolves to a user rule
C29_Witness ==
    /\ Len(load_ret) = 2
    /\ load_ret[1] \in {"Failed to read", "Failed to parse"}
    /\ load_ret[2] = "Ok"
    /\ custom_languages # None
    /\ dpath # None
    /\ dcl = custom_languages
    /\ detected # None
    /\ detected # detect_builtin(dpath[1])

----------------------------------------------------------------------------
(* The two pipelines: the dedup toggle, termination, files that fail *)

\* analyze_with_config or run has returned a summary
LibraryDone == ppc = "done"
RunDone == ppc = "run_done"

ReadableEntries == {i \in 1..Len(entries) : disk[i].readable}

\* The readable entries of the content of entry i that were scanned
ScannedLike(i) == {j \in SameContent(i) : tasks[j].scanned}

\* C25: the skip_uniqueness flag of the walker configuration decides:
\* without it the files of one content are scanned and counted once, with
\* it every file is scanned and counted and no hash is taken.
C25_ToggleControlsDedup ==
    (LibraryDone \/ RunDone) =>
       \A i \in ReadableEntries :
          /\ (~skip_uniqueness /\ NoCollision(i)) =>
                Cardinality(ScannedLike(i)) = 1
          /\ skip_uniqueness =>
                (tasks[i].scanned /\ tasks[i].hash = 0)

\* The flag has no part in what run does: every readable file is scanned
\* and no hash is taken, with the flag and without it
C25_RunNeverDedups ==
    RunDone =>
       /\ seen_hashes = {}
       /\ \A i \in ReadableEntries : tasks[i].scanned /\ tasks[i].hash = 0

\* What the closure of filter_map makes of count_lines on entry i
CountedAs(i) ==
    LET r == count_lines(entries[i].path, disk[entries[i].path],
                         entries[i].language)
    IN  IF r.ok /\ Total(r.val) > 0 THEN Some(r.val) ELSE None

\* C26: under fair scheduling both pipelines come to an end with every
\* task returned (its file counted or skipped); collect and the reduction
\* come only after every task has returned, and from_file_stats is given
\* the stats of every counted file.
C26_Terminates ==
    /\ <>[](/\ ppc \in {"NoSourceFiles", "done", "run_empty", "run_done"}
            /\ \A i \in 1..Len(tasks) : tasks[i].pc = "done")
    /\ [](ppc \in {"reduce", "done", "run_reduce", "run_done"} =>
            /\ \A i \in 1..Len(tasks) : tasks[i].pc = "done"
            /\ file_stats = Kept(tasks, 1))
    /\ [](ppc \in {"done", "run_done"} =>
            summary.total_files =
               Cardinality({i \in 1..Len(tasks) : tasks[i].out # None}))

\* A run of three steps or more has ended with one file counted and one
\* skipped
C26_Witness ==
    /\ RunDone
    /\ Len(entries) = 2
    /\ tasks[1].out # None
    /\ tasks[2].out = None
    /\ summary.total_files = 1

=============================================================================
